---- MODULE Spec2Model ----
(***************************************************************************)
(* Verification model of the nuclear decay cascade generator of MPMUtils   *)
(* (Physics/NuclEvtGen.cc): PSelector, NucLevel, the transition classes,   *)
(* NucDecaySystem.                                                         *)
(*                                                                         *)
(* The C++ doubles are modelled as exact rationals <<num, den>> in lowest  *)
(* terms with den > 0.  A division by zero yields one of the non-finite    *)
(* values <<1,0>>, <<-1,0>> (infinities) or <<0,0>> (NaN); the arithmetic  *)
(* and the comparisons treat them as IEEE doubles do.                      *)
(***************************************************************************)
EXTENDS Integers, Sequences, FiniteSets, TLC

(* ------------------------------ bounds -------------------------------- *)

\* largest weight passed to PSelector::addProb in the selector specification
MaxW == 2
\* largest number of bins added to the selector under test
MaxBins == 3
\* number of level records of a system
NLev == 3
\* largest number of gamma, beta and ecapt records of a system
MaxTrans == 2
\* largest number of NucDecaySystem::scale calls on a system
MaxScale == 2
\* largest number of getGenerator and hasGenerator calls on a library
MaxCalls == 4

(* ------------------------- rational arithmetic ------------------------ *)

Abs(n) == IF n < 0 THEN -n ELSE n

Sign(n) == IF n < 0 THEN -1 ELSE IF n = 0 THEN 0 ELSE 1

RECURSIVE GCD(_, _)
GCD(a, b) == IF b = 0 THEN a ELSE GCD(b, a % b)

\* the rational n/d (d # 0) in lowest terms
Rat(n, d) ==
    LET g == GCD(Abs(n), Abs(d))
    IN  <<(Sign(d) * n) \div g, Abs(d) \div g>>

RZero == <<0, 1>>
ROne == <<1, 1>>
RNaN == <<0, 0>>

IsFinite(a) == a[2] > 0

RNeg(a) == <<-a[1], a[2]>>

\* a + b; inf + (-inf) and every sum with NaN are NaN
RAdd(a, b) ==
    IF IsFinite(a) /\ IsFinite(b) THEN Rat(a[1] * b[2] + b[1] * a[2], a[2] * b[2])
    ELSE IF ~IsFinite(a) /\ ~IsFinite(b) THEN (IF a = b THEN a ELSE RNaN)
    ELSE IF IsFinite(a) THEN b ELSE a

RSub(a, b) == RAdd(a, RNeg(b))

\* n/d for d >= 0; d = 0 gives an infinity or NaN as for IEEE doubles
RatExt(n, d) == IF d = 0 THEN <<Sign(n), 0>> ELSE Rat(n, d)

RMul(a, b) == RatExt(a[1] * b[1], a[2] * b[2])

\* a / b; x / 0. is an infinity of the sign of x, 0. / 0. is NaN
RDiv(a, b) ==
    IF b = RZero THEN <<Sign(a[1]), 0>>
    ELSE RatExt(a[1] * b[2] * Sign(b[1]), a[2] * Abs(b[1]))

\* a < b and a <= b; false when a or b is NaN
RLt(a, b) ==
    IF a = RNaN \/ b = RNaN THEN FALSE
    ELSE IF ~IsFinite(a) /\ ~IsFinite(b) THEN a[1] < b[1]
    ELSE a[1] * b[2] < b[1] * a[2]

RLe(a, b) ==
    IF a = RNaN \/ b = RNaN THEN FALSE
    ELSE IF ~IsFinite(a) /\ ~IsFinite(b) THEN a[1] <= b[1]
    ELSE a[1] * b[2] <= b[1] * a[2]

RECURSIVE RSum(_)
\* left-to-right sum of a sequence of rationals
RSum(s) == IF s = <<>> THEN RZero ELSE RAdd(RSum(SubSeq(s, 1, Len(s) - 1)), s[Len(s)])

(* ------------------------------ PSelector ----------------------------- *)
(* cumprob is the C++ vector<double> cumprob; the C++ index i is the TLA+  *)
(* index i+1.                                                              *)

\* PSelector::PSelector(): cumprob = {0}
PSelectorNew == <<RZero>>

\* PSelector::addProb(p): cumprob.push_back(p + cumprob.back())
addProb(c, p) == Append(c, RAdd(p, c[Len(c)]))

\* PSelector::getCumProb(): cumprob.back()
getCumProb(c) == c[Len(c)]

\* PSelector::getN(): cumprob.size()-1
getN(c) == Len(c) - 1

\* only the last entry is multiplied by s
PSelScale_back(c, s) ==
    [i \in DOMAIN c |-> IF i = Len(c) THEN RMul(c[i], s) ELSE c[i]]

\* PSelector::scale(s)
PSelScale(c, s) == [i \in DOMAIN c |-> RMul(c[i], s)]

RECURSIVE UpperBoundFrom(_, _, _, _)
\* std::upper_bound's binary search over c[first .. first+len-1] (0-based
\* offsets): the offset of the first element greater than v
UpperBoundFrom(c, v, first, len) ==
    IF len <= 0 THEN first
    ELSE LET half == len \div 2
             mid == first + half
         IN  IF RLt(v, c[mid + 1])
             THEN UpperBoundFrom(c, v, first, half)
             ELSE UpperBoundFrom(c, v, mid + 1, len - half - 1)

RECURSIVE LowerBoundFrom(_, _, _, _)
\* mutant: std::lower_bound in place of std::upper_bound
LowerBoundFrom(c, v, first, len) ==
    IF len <= 0 THEN first
    ELSE LET half == len \div 2
             mid == first + half
         IN  IF RLt(c[mid + 1], v)
             THEN LowerBoundFrom(c, v, mid + 1, len - half - 1)
             ELSE LowerBoundFrom(c, v, first, half)

UpperBound_lower(c, v) == LowerBoundFrom(c, v, 0, Len(c))

UpperBound(c, v) == UpperBoundFrom(c, v, 0, Len(c))

\* smassert(0. <= *x && *x <= 1.)
SelectRangeOK(x) == RLe(RZero, x) /\ RLe(x, ROne)

\* smassert(selected < cumprob.size()-1), selected being an unsigned int
SelectedOK(c, selected) == selected >= 0 /\ selected < Len(c) - 1

\* mutant: the second assertion is missing and the index is returned as it is
SelectScaled_noAssert(c, xt) ==
    LET selected == UpperBound(c, xt) - 1
    IN  IF ~SelectedOK(c, selected)
        THEN [ok |-> TRUE, idx |-> selected, x |-> xt]
        ELSE [ok |-> TRUE, idx |-> selected,
              x |-> RDiv(RSub(xt, c[selected + 1]),
                         RSub(c[selected + 2], c[selected + 1]))]

\* the part of PSelector::select after *x holds the scaled value xt
SelectScaled(c, xt) ==
    LET selected == UpperBound(c, xt) - 1
    IN  IF ~SelectedOK(c, selected)
        THEN [ok |-> FALSE, idx |-> -1, x |-> xt]
        ELSE [ok |-> TRUE, idx |-> selected,
              x |-> RDiv(RSub(xt, c[selected + 1]),
                         RSub(c[selected + 2], c[selected + 1]))]

\* mutant: *x is not scaled by the total weight before the search
Select_unscaled(c, x) ==
    IF ~SelectRangeOK(x)
    THEN [ok |-> FALSE, idx |-> -1, x |-> x]
    ELSE SelectScaled(c, x)

\* PSelector::select(x) with x supplied: ok = FALSE when an smassert fails;
\* idx is the returned index, x the value left in *x
Select(c, x) ==
    IF ~SelectRangeOK(x)
    THEN [ok |-> FALSE, idx |-> -1, x |-> x]
    ELSE SelectScaled(c, RMul(x, getCumProb(c)))

\* gRandom->Uniform(0,b) for the uniform deviate u of [0,1) it is built on
UniformDraw(u, b) == RMul(u, b)

\* mutant: the lower edge of the bin is not subtracted
getProb_cum(c, n) == RDiv(c[n + 2], getCumProb(c))

\* PSelector::getProb(n), n < cumprob.size()-1
getProb(c, n) == RDiv(RSub(c[n + 2], c[n + 1]), getCumProb(c))

(* ------------------------------ NucLevel ------------------------------ *)
(* A level is a record; its index n is its position in levels, 0-based as  *)
(* in the C++ (levels[n] is the TLA+ element n+1).                         *)

\* the largest double, which stands for the half-life of a stable level
DBL_MAX == 1000000

\* a level that keeps the hl of its record
NucLevelNew_keep(E, hl, A, Z) ==
    [E |-> E, hl |-> hl, A |-> A, Z |-> Z, fluxIn |-> RZero, fluxOut |-> RZero]

\* NucLevel::NucLevel: fluxIn(0), fluxOut(0); if(hl < 0) hl = DBL_MAX
NucLevelNew(E, hl, A, Z) ==
    [E |-> E, hl |-> IF hl < 0 THEN DBL_MAX ELSE hl, A |-> A, Z |-> Z,
     fluxIn |-> RZero, fluxOut |-> RZero]

\* NucLevel::scale(s): fluxIn *= s; fluxOut *= s
NucLevelScale(l, s) ==
    [l EXCEPT !.fluxIn = RMul(@, s), !.fluxOut = RMul(@, s)]

(* ----------------------------- transitions ---------------------------- *)
(* A transition is a record [kind, from, to, Itotal, Igamma, shells,       *)
(* subshells]; from and to are level indices n; Igamma, shells and         *)
(* subshells are used by kind "gamma".  toAtom is the atom of the Z of the *)
(* level to.                                                               *)

RECURSIVE AddProbs(_, _)
\* addProb of every element of ps, in order
AddProbs(c, ps) ==
    IF ps = <<>> THEN c ELSE AddProbs(addProb(c, ps[1]), Tail(ps))

\* ConversionGamma::ConversionGamma: Igamma is the record's Igamma/100, ce the
\* CE_<shell> fields in shell order, each [p, ss]: the conversion probability
\* and the subshell weights (<<1>> when the field gives none)
ConversionGammaNew(f, t, IgammaPct, ce) ==
    LET Igamma == Rat(IgammaPct, 100)
        shprobs == [i \in DOMAIN ce |-> ce[i].p]
        shells == PSelScale(addProb(AddProbs(PSelectorNew, shprobs), ROne), Igamma)
    IN  [kind |-> "gamma", from |-> f, to |-> t,
         Itotal |-> getCumProb(shells), Igamma |-> Igamma, shells |-> shells,
         subshells |-> [i \in DOMAIN ce |-> AddProbs(PSelectorNew, ce[i].ss)]]

\* BetaDecayTrans with BD->Itotal = I/100
BetaDecayTransNew(f, t, IPct) ==
    [kind |-> "beta", from |-> f, to |-> t,
     Itotal |-> Rat(IPct, 100), Igamma |-> RZero, shells |-> PSelectorNew,
     subshells |-> <<>>]

\* ECapture with EC->Itotal = I
ECaptureNew(f, t, I) ==
    [kind |-> "ecapt", from |-> f, to |-> t,
     Itotal |-> I, Igamma |-> RZero, shells |-> PSelectorNew,
     subshells |-> <<>>]

\* TransitionBase::scale(s): Itotal *= s
TransitionBaseScale(T, s) == [T EXCEPT !.Itotal = RMul(@, s)]

\* mutant: Itotal += s in place of the call of TransitionBase::scale
ConversionGammaScale_add(T, s) ==
    [T EXCEPT !.Itotal = RAdd(@, s),
              !.Igamma = RDiv(@, s), !.shells = PSelScale(@, s)]

\* ConversionGamma::scale(s)
ConversionGammaScale(T, s) ==
    [TransitionBaseScale(T, s) EXCEPT
        !.Igamma = RDiv(@, s), !.shells = PSelScale(@, s)]

\* the virtual call t->scale(s)
TransitionScale(T, s) ==
    IF T.kind = "gamma" THEN ConversionGammaScale(T, s)
    ELSE TransitionBaseScale(T, s)

\* TransitionBase::getNDF and its overrides: the number of buffer slots the
\* firing of the transition uses (the direction 2, the beta spectrum 1 more,
\* an electron capture none)
TgetNDF(T) ==
    IF T.kind = "beta" THEN 3 ELSE IF T.kind = "ecapt" THEN 0 ELSE 2

(* ------------------------------ DecayAtom ----------------------------- *)
(* An atom is a record [Z, Eauger, Iauger, Ikxr, ICEK, IMissing, pAuger].  *)

\* BindingEnergyTable::getSubshellBinding of the element Z: the binding-energy
\* table is data of the library, here Z/((shell+1)^2 * (4 + subshell))
getSubshellBinding(Z, shell, subshell) ==
    Rat(Z, (shell + 1) * (shell + 1) * (4 + subshell))

\* DecayAtom::DecayAtom
DecayAtomNew(Z) ==
    [Z |-> Z,
     Eauger |-> IF Z > 2
                THEN RSub(RSub(getSubshellBinding(Z, 0, 0), getSubshellBinding(Z, 1, 0)),
                          getSubshellBinding(Z, 1, 1))
                ELSE RZero,
     Iauger |-> RZero, Ikxr |-> RZero, ICEK |-> RZero, IMissing |-> RZero,
     pAuger |-> RZero]

\* DecayAtom::load of an AugerK record m = [Z, a, k, Iauger]: a and k are the
\* values of the fields whose key starts with 'a' and with 'k', Iauger the
\* value of the field Iauger (0 when the record has none), all in percent
DecayAtomLoad(A, m) ==
    LET Iauger == Rat(m.Iauger, 100)
        Ikxr == RAdd(A.Ikxr, RSum([i \in DOMAIN m.k |-> Rat(m.k[i], 100)]))
    IN  [A EXCEPT
           !.Iauger = Iauger,
           !.Ikxr = Ikxr,
           !.pAuger = IF Iauger = RZero THEN RZero
                      ELSE RDiv(Iauger, RAdd(Iauger, Ikxr)),
           !.IMissing = IF Iauger = RZero THEN RZero
                        ELSE RSub(RAdd(Iauger, Ikxr), A.ICEK)]

(* --------------------------- NucDecaySystem --------------------------- *)
(* The system is a record [levels, transitions, transIn, transOut,         *)
(* levelDecays, lStart, tcut, atoms].  A TransitionBase* is the index of   *)
(* the transition in transitions; atoms maps the Z it has an atom for to   *)
(* the atom.                                                               *)

\* a getAtom that makes a new atom at every call
getAtom_fresh(atoms, Z) ==
    [z \in DOMAIN atoms \cup {Z} |-> IF z = Z THEN DecayAtomNew(Z) ELSE atoms[z]]

\* NucDecaySystem::getAtom(Z): the atoms after the call
getAtom(atoms, Z) ==
    IF Z \in DOMAIN atoms THEN atoms
    ELSE [z \in DOMAIN atoms \cup {Z} |->
            IF z = Z THEN DecayAtomNew(Z) ELSE atoms[z]]

\* the system after the level records are loaded, sorted and indexed
SystemOfLevels(levs) ==
    [levels |-> levs,
     transitions |-> <<>>,
     transIn |-> [n \in DOMAIN levs |-> <<>>],
     transOut |-> [n \in DOMAIN levs |-> <<>>],
     levelDecays |-> [n \in DOMAIN levs |-> PSelectorNew],
     lStart |-> PSelectorNew,
     tcut |-> 0,
     atoms |-> [z \in {} |-> 0]]

\* NucDecaySystem::addTransition
addTransition(S, T) ==
    LET id == Len(S.transitions) + 1
    IN  [S EXCEPT
           !.atoms = getAtom(@, S.levels[T.to + 1].Z),
           !.transIn[T.to + 1] = Append(@, id),
           !.transOut[T.from + 1] = Append(@, id),
           !.levelDecays[T.from + 1] = addProb(@, T.Itotal),
           !.levels = [[@ EXCEPT ![T.from + 1].fluxOut = RAdd(@, T.Itotal)]
                          EXCEPT ![T.to + 1].fluxIn = RAdd(@, T.Itotal)],
           !.transitions = Append(@, T)]

\* the Itotal of the transitions of a list of transition pointers
Itotals(S, ptrs) == [k \in DOMAIN ptrs |-> S.transitions[ptrs[k]].Itotal]

\* gsflux of the constructor: the summed influx of the levels with !fluxOut
GsFlux(S) ==
    RSum([n \in DOMAIN S.levels |->
            IF S.levels[n].fluxOut = RZero THEN S.levels[n].fluxIn ELSE RZero])

\* mutant: the levels are not scaled
GsNormalize_noLevels(S) ==
    LET f == RDiv(ROne, GsFlux(S))
    IN  [S EXCEPT
           !.transitions = [i \in DOMAIN @ |-> TransitionScale(@[i], f)]]

\* the constructor's ground state normalization: every transition and every
\* level is scaled by 1./gsflux
GsNormalize(S) ==
    LET f == RDiv(ROne, GsFlux(S))
    IN  [S EXCEPT
           !.transitions = [i \in DOMAIN @ |-> TransitionScale(@[i], f)],
           !.levels = [n \in DOMAIN @ |-> NucLevelScale(@[n], f)]]

\* TransitionBase::getPVacant(n) and its overrides: the probability that the
\* firing of T removes an electron of shell n
getPVacant(S, T, n) ==
    IF T.kind = "gamma"
    THEN (IF n < getN(T.shells) - 1 THEN getProb(T.shells, n) ELSE RZero)
    ELSE IF T.kind = "ecapt" /\ n = 0
    THEN S.atoms[S.levels[T.to + 1].Z].IMissing
    ELSE RZero

RECURSIVE AugerICEK(_, _)
\* the constructor's loop t->toAtom->ICEK += t->getPVacant(0)*t->Itotal, from
\* transition i on
AugerICEK(S, i) ==
    IF i > Len(S.transitions) THEN S
    ELSE LET T == S.transitions[i]
         IN  AugerICEK([S EXCEPT !.atoms[S.levels[T.to + 1].Z].ICEK =
                                    RAdd(@, RMul(getPVacant(S, T, 0), T.Itotal))],
                       i + 1)

RECURSIVE LoadAugers(_, _)
\* the constructor's loop over the AugerK records: [ok, S], ok false when a
\* record has no Z (exception BadAugerZ)
LoadAugers(S, augers) ==
    IF augers = <<>> THEN [ok |-> TRUE, S |-> S]
    ELSE LET a == Head(augers)
             atoms == getAtom(S.atoms, a.Z)
         IN  IF a.Z = 0 THEN [ok |-> FALSE, S |-> S]
             ELSE LoadAugers([S EXCEPT !.atoms =
                                 [atoms EXCEPT ![a.Z] = DecayAtomLoad(@, a)]],
                             Tail(augers))

\* the condition of an electron capture from Lorig to Ldest
ECaptAllowed(Lorig, Ldest) ==
    Ldest.A = Lorig.A /\ Ldest.Z + 1 = Lorig.Z /\ Ldest.E < Lorig.E

RECURSIVE ECaptAutoFrom(_, _, _)
\* the loop over Ldest of an ecapt record with to = AUTO, from level index d on
ECaptAutoFrom(S, f, d) ==
    IF d >= Len(S.levels) THEN S
    ELSE LET Lorig == S.levels[f + 1]
             Ldest == S.levels[d + 1]
             missingFlux == RSub(Ldest.fluxOut, Ldest.fluxIn)
         IN  IF ECaptAllowed(Lorig, Ldest) /\ ~RLe(missingFlux, RZero)
             THEN ECaptAutoFrom(addTransition(S, ECaptureNew(f, d, missingFlux)), f, d + 1)
             ELSE ECaptAutoFrom(S, f, d + 1)

\* mutant: hl >= tcut in place of hl > tcut
pStart_ge(S, t, n) ==
    IF n + 1 = Len(S.levels) THEN ROne
    ELSE IF S.levels[n + 1].hl >= t /\ Len(S.transOut[n + 1]) > 0
         THEN RSum(Itotals(S, S.transIn[n + 1]))
         ELSE RZero

\* the pStart of level n in setCutoff, tcut being t
pStart(S, t, n) ==
    IF n + 1 = Len(S.levels) THEN ROne
    ELSE IF S.levels[n + 1].hl > t /\ Len(S.transOut[n + 1]) > 0
         THEN RSum(Itotals(S, S.transIn[n + 1]))
         ELSE RZero

\* mutant: the per-level decay selectors are rebuilt with equal weights
setCutoff_flat(S, t) ==
    [S EXCEPT
       !.tcut = t,
       !.lStart = AddProbs(PSelectorNew,
                           [m \in DOMAIN S.levels |-> pStart(S, t, m - 1)]),
       !.levelDecays = [m \in DOMAIN @ |->
            AddProbs(PSelectorNew, [k \in DOMAIN S.transOut[m] |-> ROne])]]

\* NucDecaySystem::setCutoff
setCutoff(S, t) ==
    [S EXCEPT
       !.tcut = t,
       !.lStart = AddProbs(PSelectorNew,
                           [m \in DOMAIN S.levels |-> pStart(S, t, m - 1)]),
       !.levelDecays = [m \in DOMAIN @ |->
            AddProbs(PSelectorNew, Itotals(S, S.transOut[m]))]]

\* mutant: the per-level decay selectors are not scaled
scale_noDecays(S, s) ==
    [S EXCEPT
       !.lStart = PSelScale(@, s),
       !.transitions = [i \in DOMAIN @ |-> TransitionScale(@[i], s)],
       !.levels = [n \in DOMAIN @ |-> NucLevelScale(@[n], s)]]

\* NucDecaySystem::scale
scale(S, s) ==
    [S EXCEPT
       !.lStart = PSelScale(@, s),
       !.transitions = [i \in DOMAIN @ |-> TransitionScale(@[i], s)],
       !.levels = [n \in DOMAIN @ |-> NucLevelScale(@[n], s)],
       !.levelDecays = [n \in DOMAIN @ |-> PSelScale(@[n], s)]]

(* ---------------------------- genDecayChain --------------------------- *)
(* A call in progress is a record [status, n, fired, arg, first, last]: n  *)
(* is the argument n of the frame to run next, fired the number of         *)
(* transitions fired so far, arg the argument n of the call, first and     *)
(* last the level of the first and of the latest frame (-1: none yet).     *)

\* mutant: the recursion continues from the origin of the transition
genDecayChainFrame_from(S, ch, u1, u2) ==
    LET init == ch.n >= Len(S.levels)
        r1 == SelectScaled(S.lStart, UniformDraw(u1, getCumProb(S.lStart)))
        n == IF init THEN r1.idx ELSE ch.n
    IN  IF init /\ ~r1.ok THEN [ch EXCEPT !.status = "failed"]
        ELSE IF S.levels[n + 1].fluxOut = RZero
                \/ (~init /\ S.levels[n + 1].hl > S.tcut)
        THEN [ch EXCEPT !.status = "returned", !.n = n, !.last = n,
                        !.first = IF @ = -1 THEN n ELSE @]
        ELSE LET sel == S.levelDecays[n + 1]
                 r2 == SelectScaled(sel, UniformDraw(u2, getCumProb(sel)))
             IN  IF ~r2.ok
                 THEN [ch EXCEPT !.status = "failed", !.n = n, !.last = n,
                                 !.first = IF @ = -1 THEN n ELSE @]
                 ELSE [ch EXCEPT
                         !.n = S.transitions[S.transOut[n + 1][r2.idx + 1]].from,
                         !.fired = @ + 1, !.last = n,
                         !.first = IF @ = -1 THEN n ELSE @]

\* mutant: the half-life test also stops the initiating call
genDecayChainFrame_noInit(S, ch, u1, u2) ==
    LET init == ch.n >= Len(S.levels)
        r1 == SelectScaled(S.lStart, UniformDraw(u1, getCumProb(S.lStart)))
        n == IF init THEN r1.idx ELSE ch.n
    IN  IF init /\ ~r1.ok THEN [ch EXCEPT !.status = "failed"]
        ELSE IF S.levels[n + 1].fluxOut = RZero
                \/ S.levels[n + 1].hl > S.tcut
        THEN [ch EXCEPT !.status = "returned", !.n = n, !.last = n,
                        !.first = IF @ = -1 THEN n ELSE @]
        ELSE LET sel == S.levelDecays[n + 1]
                 r2 == SelectScaled(sel, UniformDraw(u2, getCumProb(sel)))
             IN  IF ~r2.ok
                 THEN [ch EXCEPT !.status = "failed", !.n = n, !.last = n,
                                 !.first = IF @ = -1 THEN n ELSE @]
                 ELSE [ch EXCEPT
                         !.n = S.transitions[S.transOut[n + 1][r2.idx + 1]].to,
                         !.fired = @ + 1, !.last = n,
                         !.first = IF @ = -1 THEN n ELSE @]

\* a frame that returns at a level whose half-life is at least the cutoff
genDecayChainFrame_ge(S, ch, u1, u2) ==
    LET init == ch.n >= Len(S.levels)
        r1 == SelectScaled(S.lStart, UniformDraw(u1, getCumProb(S.lStart)))
        n == IF init THEN r1.idx ELSE ch.n
    IN  IF init /\ ~r1.ok THEN [ch EXCEPT !.status = "failed"]
        ELSE IF S.levels[n + 1].fluxOut = RZero
                \/ (~init /\ S.levels[n + 1].hl >= S.tcut)
        THEN [ch EXCEPT !.status = "returned", !.n = n, !.last = n,
                        !.first = IF @ = -1 THEN n ELSE @]
        ELSE LET sel == S.levelDecays[n + 1]
                 r2 == SelectScaled(sel, UniformDraw(u2, getCumProb(sel)))
             IN  IF ~r2.ok
                 THEN [ch EXCEPT !.status = "failed", !.n = n, !.last = n,
                                 !.first = IF @ = -1 THEN n ELSE @]
                 ELSE [ch EXCEPT
                         !.n = S.transitions[S.transOut[n + 1][r2.idx + 1]].to,
                         !.fired = @ + 1, !.last = n,
                         !.first = IF @ = -1 THEN n ELSE @]

\* one frame of NucDecaySystem::genDecayChain(v, NULL, ch.n), the selectors
\* drawing the uniform deviates u1 (lStart) and u2 (levelDecays[n])
genDecayChainFrame(S, ch, u1, u2) ==
    LET init == ch.n >= Len(S.levels)
        r1 == SelectScaled(S.lStart, UniformDraw(u1, getCumProb(S.lStart)))
        n == IF init THEN r1.idx ELSE ch.n
    IN  IF init /\ ~r1.ok THEN [ch EXCEPT !.status = "failed"]
        ELSE IF S.levels[n + 1].fluxOut = RZero
                \/ (~init /\ S.levels[n + 1].hl > S.tcut)
        THEN [ch EXCEPT !.status = "returned", !.n = n, !.last = n,
                        !.first = IF @ = -1 THEN n ELSE @]
        ELSE LET sel == S.levelDecays[n + 1]
                 r2 == SelectScaled(sel, UniformDraw(u2, getCumProb(sel)))
             IN  IF ~r2.ok
                 THEN [ch EXCEPT !.status = "failed", !.n = n, !.last = n,
                                 !.first = IF @ = -1 THEN n ELSE @]
                 ELSE [ch EXCEPT
                         !.n = S.transitions[S.transOut[n + 1][r2.idx + 1]].to,
                         !.fired = @ + 1, !.last = n,
                         !.first = IF @ = -1 THEN n ELSE @]

(* ------------------------------- getNDF ------------------------------- *)
(* The recursion of getNDF does not return when a cycle of transitions can *)
(* be reached from the level: -1 stands for that outcome.  A nesting       *)
(* deeper than the number of levels has met a level twice.                 *)

\* the smaller of the two
Max_min(a, b) == IF a < b THEN a ELSE b

\* lndf>ndf?lndf:ndf
Max(a, b) == IF a > b THEN a ELSE b

RECURSIVE getNDFLevel(_, _, _)
RECURSIVE getNDFLoop(_, _, _, _, _)
RECURSIVE getNDFLoop_noSub(_, _, _, _, _)
\* the loop without the getNDF of the destination level
getNDFLoop_noSub(S, n, k, ndf, depth) ==
    IF k > Len(S.transOut[n + 1]) THEN ndf
    ELSE LET T == S.transitions[S.transOut[n + 1][k]]
         IN  getNDFLoop_noSub(S, n, k + 1, Max(ndf, TgetNDF(T)), depth)

\* the loop of getNDF(n) over transOut[n] from its k-th entry on, ndf being
\* the maximum so far
getNDFLoop(S, n, k, ndf, depth) ==
    IF k > Len(S.transOut[n + 1]) THEN ndf
    ELSE LET T == S.transitions[S.transOut[n + 1][k]]
             sub == getNDFLevel(S, T.to, depth - 1)
         IN  IF sub = -1 THEN -1
             ELSE getNDFLoop(S, n, k + 1, Max(ndf, TgetNDF(T) + sub), depth)

\* NucDecaySystem::getNDF(n) for a level n, nested at most depth calls deep
getNDFLevel(S, n, depth) ==
    IF depth = 0 THEN -1 ELSE getNDFLoop(S, n, 1, 0, depth)

RECURSIVE getNDFStart(_, _, _)
\* the loop of getNDF(n), n >= levels.size(), over the levels from i on
getNDFStart(S, i, ndf) ==
    IF i >= Len(S.levels) THEN ndf
    ELSE IF getProb(S.lStart, i) = RZero THEN getNDFStart(S, i + 1, ndf)
    ELSE LET lndf == getNDFLevel(S, i, Len(S.levels))
         IN  IF lndf = -1 THEN -1 ELSE getNDFStart(S, i + 1, Max(ndf, lndf))

\* NucDecaySystem::getNDF(n)
getNDF(S, n) ==
    IF n >= Len(S.levels) THEN getNDFStart(S, 0, 0)
    ELSE getNDFLevel(S, n, Len(S.levels))

(* --------------------- genDecayChain with a buffer -------------------- *)
(* A call genDecayChain(v, rnd, n) in progress is a record g = [status, n, *)
(* arg, cur, offs, buf, buf0, reads, v, v0, again, fired]: n is the        *)
(* argument n of the frame to run next, arg that of the call, cur the      *)
(* offset of the frame's rnd in the caller's buffer, offs the offsets of   *)
(* the frames so far, buf the buffer (slot k is buf[k+1]), buf0 the buffer *)
(* as the caller passed it, reads the slots read so far, v the events      *)
(* appended so far, fired the number of transitions fired; again says that *)
(* the call repeats an earlier one, whose events are v0; run tells of the  *)
(* transition fired last: its index tr, the length at of v before it ran,  *)
(* what its selectors returned, its nVacant(0), the number of genAuger     *)
(* calls that followed it and the Z of the atom they were made on.         *)

\* select leaving its residual in the slot after the one it read
RndSelect_next(c, g) ==
    LET r == Select(c, g.buf[g.cur + 1])
    IN  [r |-> r,
         g |-> [g EXCEPT !.buf[g.cur + 2] = r.x, !.reads = @ \cup {g.cur}]]

\* PSelector::select(rnd): the result of the call, and g after it
RndSelect(c, g) ==
    LET r == Select(c, g.buf[g.cur + 1])
    IN  [r |-> r,
         g |-> [g EXCEPT !.buf[g.cur + 1] = r.x, !.reads = @ \cup {g.cur}]]

\* NucDecayEvent::randp(rnd): randomDirection reads rnd[1] and rnd[0]
RndDirection(g) == [g EXCEPT !.reads = @ \cup {g.cur, g.cur + 1}]

\* no selector was sampled by the run
NoSel == [shellBin |-> -1, subBin |-> -1]

\* a run that subtracts the binding energy of the first subshell of the shell
ConversionGammaPush_first(S, T, s1, s2) ==
    LET conv == s1.r.ok /\ s1.r.idx < Len(T.subshells)
        shell == IF conv THEN s1.r.idx ELSE -1
        Egamma == Rat(S.levels[T.from + 1].E - S.levels[T.to + 1].E, 1)
        evt == IF shell < 0 THEN [d |-> "gamma", E |-> Egamma]
               ELSE [d |-> "e-",
                     E |-> RSub(Egamma,
                                getSubshellBinding(S.levels[T.to + 1].Z, shell, 0))]
        sel == [shellBin |-> s1.r.idx, subBin |-> IF conv THEN s2.r.idx ELSE -1]
    IN  IF ~s1.r.ok \/ ~s2.r.ok
        THEN [ok |-> FALSE, g |-> s2.g, nVacant |-> 0, sel |-> sel]
        ELSE [ok |-> TRUE,
              g |-> [RndDirection(s2.g) EXCEPT !.v = Append(@, evt)],
              nVacant |-> IF shell = 0 THEN 1 ELSE 0, sel |-> sel]

\* ConversionGamma::run after its selects: s1 is what shells.select(rnd)
\* gave, s2 what subshells[shell].select(rnd) gave (s1 when the shell is the
\* photon bin)
ConversionGammaPush(S, T, s1, s2) ==
    LET conv == s1.r.ok /\ s1.r.idx < Len(T.subshells)
        shell == IF conv THEN s1.r.idx ELSE -1
        subshell == IF conv THEN s2.r.idx ELSE -1
        Egamma == Rat(S.levels[T.from + 1].E - S.levels[T.to + 1].E, 1)
        evt == IF shell < 0 THEN [d |-> "gamma", E |-> Egamma]
               ELSE [d |-> "e-",
                     E |-> RSub(Egamma,
                                getSubshellBinding(S.levels[T.to + 1].Z, shell, subshell))]
        sel == [shellBin |-> s1.r.idx, subBin |-> subshell]
    IN  IF ~s1.r.ok \/ ~s2.r.ok
        THEN [ok |-> FALSE, g |-> s2.g, nVacant |-> 0, sel |-> sel]
        ELSE [ok |-> TRUE,
              g |-> [RndDirection(s2.g) EXCEPT !.v = Append(@, evt)],
              nVacant |-> IF shell = 0 THEN 1 ELSE 0, sel |-> sel]

\* ConversionGamma::run from its second select on
ConversionGammaSub(S, T, s1) ==
    ConversionGammaPush(S, T, s1,
        IF s1.r.ok /\ s1.r.idx < Len(T.subshells)
        THEN RndSelect(T.subshells[s1.r.idx + 1], s1.g)
        ELSE [r |-> s1.r, g |-> s1.g])

\* ConversionGamma::run(v, rnd): [ok, g, nVacant, sel], ok false when a select
\* fails an assertion, nVacant the result of nVacant(0) after the run, sel
\* what shells.select and subshells[shell].select returned
ConversionGammaRun(S, T, g) == ConversionGammaSub(S, T, RndSelect(T.shells, g))

\* TF1_Quantiles::eval(u) of the beta spectrum on [0, E(from) - E(to)]: the
\* quantile function of the spectrum, here of the flat one
betaQuantile(S, T, u) ==
    RMul(u, Rat(S.levels[T.from + 1].E - S.levels[T.to + 1].E, 1))

\* BetaDecayTrans::run(v, rnd), of an electron
BetaDecayTransRun(S, T, g) ==
    LET g1 == RndDirection(g)
        evt == [d |-> "e-", E |-> betaQuantile(S, T, g.buf[g.cur + 3])]
    IN  [ok |-> TRUE,
         g |-> [g1 EXCEPT !.reads = @ \cup {g.cur + 2}, !.v = Append(@, evt)],
         nVacant |-> 0, sel |-> NoSel]

\* ECapture::run(v, rnd): isKCapt = gRandom->Uniform(0,1) < toAtom->IMissing,
\* uE being the uniform deviate
ECaptureRun(S, T, g, uE) ==
    [ok |-> TRUE, g |-> g, sel |-> NoSel,
     nVacant |-> IF RLt(uE, S.atoms[S.levels[T.to + 1].Z].IMissing) THEN 1 ELSE 0]

\* the virtual call T->run(v, rnd), followed by T->nVacant(0)
TransitionRun(S, T, g, uE) ==
    IF T.kind = "gamma" THEN ConversionGammaRun(S, T, g)
    ELSE IF T.kind = "beta" THEN BetaDecayTransRun(S, T, g)
    ELSE ECaptureRun(S, T, g, uE)

\* a relaxation that emits two electrons
genAuger_two(A, g, uA) ==
    IF RLt(A.pAuger, uA) THEN g
    ELSE [g EXCEPT !.v = @ \o <<[d |-> "e-", E |-> A.Eauger],
                                 [d |-> "e-", E |-> A.Eauger]>>]

\* DecayAtom::genAuger(v), uA being the deviate gRandom->Uniform(0,1)
genAuger(A, g, uA) ==
    IF RLt(A.pAuger, uA) THEN g
    ELSE [g EXCEPT !.v = Append(@, [d |-> "e-", E |-> A.Eauger])]

\* while(nAugerK--) getAtom(T->to.Z)->genAuger(v), nAugerK = T->nVacant(0)
\* being 0 or 1: g after the loop, and the number of genAuger calls made
AugerLoop(A, g, nAugerK, uA) ==
    IF nAugerK = 0 THEN [g |-> g, calls |-> 0]
    ELSE [g |-> genAuger(A, g, uA), calls |-> 1]

\* the end of a frame that fired transition tr: run is what T->run and
\* T->nVacant(0) gave, aug what the loop over the vacancies gave
genDecayChainFired(S, gg, tr, run, aug) ==
    LET T == S.transitions[tr]
    IN  [aug.g EXCEPT !.n = T.to, !.fired = @ + 1,
                      !.run = [tr |-> tr, at |-> Len(gg.v), sel |-> run.sel,
                               nVacant |-> run.nVacant, calls |-> aug.calls,
                               Z |-> IF aug.calls = 0 THEN 0
                                     ELSE S.levels[T.to + 1].Z]]

\* a frame after T->run(v, rnd): rnd += T->getNDF() and the loop over the
\* vacancies
genDecayChainRan(S, gg, n, tr, run, uA) ==
    LET T == S.transitions[tr]
    IN  IF ~run.ok THEN [run.g EXCEPT !.status = "failed", !.n = n]
        ELSE genDecayChainFired(S, gg, tr, run,
                 AugerLoop(getAtom(S.atoms, S.levels[T.to + 1].Z)[S.levels[T.to + 1].Z],
                           [run.g EXCEPT !.cur = @ + TgetNDF(T)],
                           run.nVacant, uA))

\* a frame after levelDecays[n].select(rnd), which gave s2
genDecayChainSelected(S, gg, n, s2, uE, uA) ==
    IF ~s2.r.ok THEN [s2.g EXCEPT !.status = "failed", !.n = n]
    ELSE genDecayChainRan(S, gg, n, S.transOut[n + 1][s2.r.idx + 1],
             TransitionRun(S, S.transitions[S.transOut[n + 1][s2.r.idx + 1]],
                           s2.g, uE),
             uA)

\* one frame of NucDecaySystem::genDecayChain(v, rnd, g.n) with rnd # NULL
genDecayChainRnd(S, gg, uE, uA) ==
    LET g == [gg EXCEPT !.offs = @ \cup {gg.cur}]
        init == g.n >= Len(S.levels)
        s1 == RndSelect(S.lStart, g)
        g1 == IF init THEN s1.g ELSE g
        n == IF init THEN s1.r.idx ELSE g.n
    IN  IF init /\ ~s1.r.ok THEN [g1 EXCEPT !.status = "failed"]
        ELSE IF S.levels[n + 1].fluxOut = RZero
                \/ (~init /\ S.levels[n + 1].hl > S.tcut)
        THEN [g1 EXCEPT !.status = "returned", !.n = n]
        ELSE genDecayChainSelected(S, gg, n,
                                   RndSelect(S.levelDecays[n + 1], g1), uE, uA)

(* ----------------------- selector specification ----------------------- *)

VARIABLES
    cumprob,    \* the PSelector under test
    selIn,      \* the last select call's argument: [supplied, x]; x = RNaN:
                \* no call yet; not supplied: x is the uniform deviate drawn
    selOut,     \* what that call did: [ok, idx, x]
    sweepIdx,   \* indices returned by a sweep of x over the grid, in order
    sweepRes,   \* the residuals written back during the sweep
    selHist     \* the addProb and scale calls made of the selector, in
                \* order: [op, v]

selVars == <<cumprob, selIn, selOut, sweepIdx, sweepRes, selHist>>

VARIABLES
    sys,        \* the NucDecaySystem
    pc,         \* where the system is: in its constructor ("gamma", "beta",
                \* "ecapt"), constructed ("ready"), or construction ended in
                \* an exception ("failed")
    norm,       \* whether the file asks for norm gamma = groundstate
    nrec,       \* number of gamma, beta and ecapt records processed
    lastOp,     \* the last operation on the system: "load" (of the levels),
                \* "setCutoff" (also the constructor's), "scale", "chain"
    scaleHist,  \* the scale calls so far: [s, I], I the Itotal of every
                \* transition before the call
    made,       \* the Itotal each transition had when addTransition took it
    chain       \* the genDecayChain call in progress

sysVars == <<sys, pc, norm, nrec, lastOp, scaleHist, made, chain>>

VARIABLES
    gen         \* the genDecayChain call with a buffer in progress

genVars == <<gen>>

VARIABLES
    file,       \* the decay data file being loaded by the constructor, and
                \* what its loading has come to
    lib         \* the NucDecayLibrary and the calls made of it: [L, calls]

libVars == <<file, lib>>

vars == <<selVars, sysVars, genVars, libVars>>

\* the variables the selector actions, the system actions and the buffered
\* chain actions leave alone
nonSelVars == <<sysVars, genVars, libVars>>
nonSysVars == <<selVars, genVars, libVars>>
nonGenVars == <<selVars, sysVars, libVars>>

\* the grid of x values: fine enough that every positive bin contains a point
XDen == MaxW * MaxBins
XGrid == {Rat(k, XDen) : k \in (-1) .. (XDen + 1)}

NoCall == [ok |-> FALSE, idx |-> -2, x |-> RNaN]

NoIn == [supplied |-> FALSE, x |-> RNaN]

\* a buffer of len slots that all hold u
ConstBuf(len, u) == [k \in 1 .. len |-> u]

\* no transition fired yet
NoRun ==
    [tr |-> 0, at |-> 0, sel |-> NoSel, nVacant |-> 0, calls |-> 0, Z |-> 0]

NoGen ==
    [status |-> "idle", n |-> 0, arg |-> 0, cur |-> 0, offs |-> {},
     buf |-> <<>>, buf0 |-> <<>>,
     reads |-> {}, v |-> <<>>, v0 |-> <<>>, again |-> FALSE, fired |-> 0,
     run |-> NoRun]

\* no exception
NoErr == [what |-> "none", name |-> <<>>]

\* no transition record
NoRec == [kind |-> "none", from |-> <<>>, to |-> <<>>]

\* no file: the system is given by its sorted levels
NoFile == [levs |-> <<>>, levelIndex |-> <<>>, last |-> NoRec, err |-> NoErr]

\* no library
NoLib == [L |-> <<>>, calls |-> <<>>]

NoChain ==
    [status |-> "idle", n |-> 0, fired |-> 0, arg |-> 0, first |-> -1, last |-> -1]

SelInit ==
    /\ cumprob = PSelectorNew
    /\ selIn = NoIn
    /\ selOut = NoCall
    /\ sweepIdx = <<>>
    /\ sweepRes = <<>>
    /\ selHist = <<>>
    /\ file = NoFile
    /\ lib = NoLib
    /\ sys = SystemOfLevels(<<>>)
    /\ pc = "none"
    /\ norm = FALSE
    /\ nrec = 0
    /\ lastOp = "none"
    /\ scaleHist = <<>>
    /\ made = <<>>
    /\ chain = NoChain
    /\ gen = NoGen

Untouched == selIn = NoIn /\ sweepIdx = <<>>

\* addProb(w) on the selector under test
SelAddProb ==
    /\ Untouched
    /\ getN(cumprob) < MaxBins
    /\ \E w \in 0 .. MaxW :
         /\ cumprob' = addProb(cumprob, Rat(w, 1))
         /\ selHist' = Append(selHist, [op |-> "addProb", v |-> Rat(w, 1)])
    /\ UNCHANGED <<selIn, selOut, sweepIdx, sweepRes, nonSelVars>>

\* select(&x) with a caller-supplied x
SelSelect ==
    /\ sweepIdx = <<>>
    /\ \E x \in XGrid :
         /\ selIn' = [supplied |-> TRUE, x |-> x]
         /\ selOut' = Select(cumprob, x)
    /\ UNCHANGED <<cumprob, sweepIdx, sweepRes, selHist, nonSelVars>>

\* select() without x: rnd_tmp = gRandom->Uniform(0,cumprob.back()), that is
\* cumprob.back() times a uniform deviate u of [0,1)
SelSelectDrawn ==
    /\ sweepIdx = <<>>
    /\ \E u \in {x \in XGrid : RLe(RZero, x) /\ RLt(x, ROne)} :
         /\ selIn' = [supplied |-> FALSE, x |-> u]
         /\ selOut' = SelectScaled(cumprob, UniformDraw(u, getCumProb(cumprob)))
    /\ UNCHANGED <<cumprob, sweepIdx, sweepRes, selHist, nonSelVars>>

\* one step of a sweep of x over 0, 1/XDen, ..., (XDen-1)/XDen
SelSweep ==
    /\ selIn = NoIn
    /\ Len(sweepIdx) < XDen
    /\ LET r == Select(cumprob, Rat(Len(sweepIdx), XDen))
       IN  /\ sweepIdx' = Append(sweepIdx, IF r.ok THEN r.idx ELSE -1)
           /\ sweepRes' = Append(sweepRes, r.x)
    /\ UNCHANGED <<cumprob, selIn, selOut, selHist, nonSelVars>>

SelNext == SelAddProb \/ SelSelect \/ SelSelectDrawn \/ SelSweep

SelSpec == SelInit /\ [][SelNext]_vars

(* ------------------------ system specification ----------------------- *)

\* the hl of the level records: 0 for every level, or 1 for one level of ms
\* and 0 for the others
HLZero == {[n \in 1 .. NLev |-> 0]}
HLOne(ms) == {[n \in 1 .. NLev |-> IF n = m THEN 1 ELSE 0] : m \in ms}

\* the level records: level n has energy n; the highest level is the parent
\* nuclide (Z = 2), the others are levels of the daughter (Z = 1)
LevelInputs(hlInputs) ==
    {[n \in 1 .. NLev |->
        NucLevelNew(n - 1, hls[n], 1, IF n = NLev THEN 2 ELSE 1)] : hls \in hlInputs}

\* from/to pairs of the transition records
AllPairs == (0 .. NLev - 1) \X (0 .. NLev - 1)
DownPairs == {p \in AllPairs : p[1] > p[2]}
\* from the parent nuclide to a level of the daughter
ParentPairs == {p \in DownPairs : p[1] = NLev - 1}

\* Igamma of the gamma records and I of the beta records, percent
IgammaPcts == {50}
ChainIgammaPcts == {100}
BetaPcts == {100}
\* I of the ecapt records
ECaptIs == {<<1, 2>>}
\* cutoff times
TVals == {0, 1}
\* scale factors
SVals == {<<1, 2>>, <<2, 1>>}

SysInitWith(levelInputs) ==
    /\ cumprob = PSelectorNew
    /\ selIn = NoIn
    /\ selOut = NoCall
    /\ sweepIdx = <<>>
    /\ sweepRes = <<>>
    /\ selHist = <<>>
    /\ file = NoFile
    /\ lib = NoLib
    /\ \E levs \in levelInputs : sys = SystemOfLevels(levs)
    /\ pc = "gamma"
    /\ norm = FALSE
    /\ nrec = 0
    /\ lastOp = "load"
    /\ scaleHist = <<>>
    /\ made = <<>>
    /\ chain = NoChain
    /\ gen = NoGen

\* made after a step that added transitions to sys
MadeAfter(S) ==
    [i \in DOMAIN S.transitions |->
        IF i <= Len(made) THEN made[i] ELSE S.transitions[i].Itotal]

\* one gamma record: addTransition(new ConversionGamma(...))
AddGamma(pairs, pcts, ces) ==
    /\ pc = "gamma"
    /\ nrec < MaxTrans
    /\ \E p \in pairs, ig \in pcts, ce \in ces :
         sys' = addTransition(sys, ConversionGammaNew(p[1], p[2], ig, ce))
    /\ nrec' = nrec + 1
    /\ made' = MadeAfter(sys')
    /\ UNCHANGED <<pc, norm, lastOp, scaleHist, chain, nonSysVars>>

\* the end of the gamma records: the ground state normalization when the
\* file asks for it (with gsflux = 0 the factor 1./gsflux is not finite),
\* the ICEK of the atoms and the AugerK records
EndGamma(normChoices, augerChoices) ==
    /\ pc = "gamma"
    /\ \E nm \in normChoices, augers \in augerChoices :
         LET N == IF nm THEN GsNormalize(sys) ELSE sys
             R == LoadAugers(AugerICEK(N, 1), augers)
         IN  /\ norm' = nm
             /\ sys' = R.S
             /\ pc' = IF R.ok THEN "beta" ELSE "failed"
    /\ UNCHANGED <<nrec, lastOp, scaleHist, made, chain, nonSysVars>>

\* one beta record
AddBeta(pairs) ==
    /\ pc = "beta"
    /\ nrec < MaxTrans
    /\ \E p \in pairs, i \in BetaPcts :
         sys' = addTransition(sys, BetaDecayTransNew(p[1], p[2], i))
    /\ nrec' = nrec + 1
    /\ made' = MadeAfter(sys')
    /\ UNCHANGED <<pc, norm, lastOp, scaleHist, chain, nonSysVars>>

\* one ecapt record with to = AUTO, from the parent nuclide
AddECaptAuto ==
    /\ pc \in {"beta", "ecapt"}
    /\ nrec < MaxTrans
    /\ sys' = ECaptAutoFrom(sys, NLev - 1, 0)
    /\ nrec' = nrec + 1
    /\ made' = MadeAfter(sys')
    /\ pc' = "ecapt"
    /\ UNCHANGED <<norm, lastOp, scaleHist, chain, nonSysVars>>

\* one ecapt record that names its destination; the smassert on the
\* destination ends the construction
AddECapt(pairs) ==
    /\ pc \in {"beta", "ecapt"}
    /\ nrec < MaxTrans
    /\ \E p \in pairs, i \in ECaptIs :
         IF ECaptAllowed(sys.levels[p[1] + 1], sys.levels[p[2] + 1])
         THEN sys' = addTransition(sys, ECaptureNew(p[1], p[2], i)) /\ pc' = "ecapt"
         ELSE sys' = sys /\ pc' = "failed"
    /\ nrec' = nrec + 1
    /\ made' = MadeAfter(sys')
    /\ UNCHANGED <<norm, lastOp, scaleHist, chain, nonSysVars>>

\* the end of the constructor: setCutoff(t)
Finish(tvals) ==
    /\ pc \in {"beta", "ecapt"}
    /\ \E t \in tvals : sys' = setCutoff(sys, t)
    /\ pc' = "ready"
    /\ lastOp' = "setCutoff"
    /\ UNCHANGED <<norm, nrec, scaleHist, made, chain, nonSysVars>>

Idle == pc = "ready" /\ chain.status # "running"

\* a call of setCutoff(t) on the constructed system
SetCutoff ==
    /\ Idle
    /\ \E t \in TVals : sys' = setCutoff(sys, t)
    /\ lastOp' = "setCutoff"
    /\ UNCHANGED <<pc, norm, nrec, scaleHist, made, chain, nonSysVars>>

AllItotals(S) == [i \in DOMAIN S.transitions |-> S.transitions[i].Itotal]

\* a call of scale(s) on the constructed system
Scale ==
    /\ Idle
    /\ Len(scaleHist) < MaxScale
    /\ \E s \in SVals :
         /\ sys' = scale(sys, s)
         /\ scaleHist' = Append(scaleHist, [s |-> s, I |-> AllItotals(sys)])
    /\ lastOp' = "scale"
    /\ UNCHANGED <<pc, norm, nrec, made, chain, nonSysVars>>

\* setCutoff does not read the hl of the highest level; a level of hl 1 is
\* long-lived under the cutoff 0 and short-lived under the cutoff 1
SysInit == SysInitWith(LevelInputs(HLOne(1 .. NLev - 1)))

\* the file asks for the ground state normalization only when its gamma
\* records carry flux to a level without outflux (gsflux # 0)
NormChoices == IF GsFlux(sys) = RZero THEN {FALSE} ELSE BOOLEAN

\* the file has no AugerK record
NoAugers == {<<>>}
\* the gamma records have no CE_<shell> field
NoCE == {<<>>}

SysNext ==
    \/ AddGamma(DownPairs, IgammaPcts, NoCE)
    \/ EndGamma(NormChoices, NoAugers)
    \/ AddBeta(ParentPairs)
    \/ AddECaptAuto
    \/ AddECapt(DownPairs)
    \/ Finish(TVals)
    \/ SetCutoff
    \/ Scale

Spec == SysInit /\ [][SysNext]_vars

(* ------------------------- chain specification ------------------------ *)

\* uniform deviates that reach every bin of selector c: 0 and, for every bin
\* of nonzero weight, the deviate that lands in its middle
UnitDraws(c) ==
    {RZero} \cup
    IF getCumProb(c) = RZero THEN {}
    ELSE {RDiv(RAdd(c[k], c[k + 1]), RMul(<<2, 1>>, getCumProb(c))) :
            k \in {j \in 1 .. getN(c) : c[j] # c[j + 1]}}

ChainDraws(S) ==
    UnitDraws(S.lStart) \cup UNION {UnitDraws(S.levelDecays[n]) : n \in DOMAIN S.levelDecays}

\* a call genDecayChain(v, NULL, n); n = Len(levels) stands for the default
\* argument (no start level)
ChainCall ==
    /\ Idle
    /\ \E n \in 0 .. NLev :
         chain' = [status |-> "running", n |-> n, fired |-> 0,
                   arg |-> n, first |-> -1, last |-> -1]
    /\ lastOp' = "chain"
    /\ UNCHANGED <<sys, pc, norm, nrec, scaleHist, made, nonSysVars>>

\* one frame of the recursion; the count of fired transitions is followed up
\* to one more than the number of levels
ChainStep ==
    /\ pc = "ready"
    /\ chain.status = "running"
    /\ chain.fired <= Len(sys.levels)
    /\ \E u1 \in UnitDraws(sys.lStart), u2 \in ChainDraws(sys) :
         chain' = genDecayChainFrame(sys, chain, u1, u2)
    /\ UNCHANGED <<sys, pc, norm, nrec, lastOp, scaleHist, made, nonSysVars>>

ChainInit == SysInitWith(LevelInputs(HLZero \cup HLOne(1 .. NLev)))

ChainNext ==
    \/ AddGamma(AllPairs, ChainIgammaPcts, NoCE)
    \/ EndGamma({FALSE}, NoAugers)
    \/ AddBeta(ParentPairs)
    \/ AddECaptAuto
    \/ AddECapt(DownPairs)
    \/ Finish({0})
    \/ ChainCall
    \/ ChainStep

ChainSpec == ChainInit /\ [][ChainNext]_vars

(* --------------------- levels of negative half-life ------------------- *)

\* the hl of the level records: -1 for one level of ms and 0 for the others
HLNeg(ms) == {[n \in 1 .. NLev |-> IF n = m THEN -1 ELSE 0] : m \in ms}

\* cutoff times: 0 and the largest finite double
StableTVals == {0, DBL_MAX}

StableNext ==
    \/ AddGamma(DownPairs, ChainIgammaPcts, NoCE)
    \/ EndGamma({FALSE}, NoAugers)
    \/ AddBeta(ParentPairs)
    \/ Finish(StableTVals)
    \/ ChainCall
    \/ ChainStep

StableSpec == SysInitWith(LevelInputs(HLNeg(1 .. NLev))) /\ [][StableNext]_vars

(* -------------------- buffered chain specification -------------------- *)

\* the conversion fields of a gamma record: none, or CE_K = 1 (the K shell
\* converts as often as the photon is emitted)
CEChoices == {<<>>, <<[p |-> ROne, ss |-> <<ROne>>]>>}

\* the AugerK records of the file: none, or one for the daughter element with
\* Iauger = 50 and one k field of 50
AugerChoices == {<<>>, <<[Z |-> 1, Iauger |-> 50, k |-> <<50>>]>>}

\* the values the caller fills the buffer with, and the deviates of gRandom
BufVals == {<<1, 4>>, <<3, 4>>}
GDraws == {<<1, 4>>, <<3, 4>>}

\* slots of the caller's buffer: no chain of a system without cycles reads
\* beyond them
BufLen == 3 * NLev

\* a call genDecayChain(v, rnd, n) with v empty; n = Len(levels) stands for
\* the default argument
GenCall ==
    /\ pc = "ready"
    /\ gen.status = "idle"
    /\ \E n \in 0 .. NLev, u \in BufVals :
         gen' = [NoGen EXCEPT !.status = "running", !.n = n, !.arg = n,
                              !.buf = ConstBuf(BufLen, u),
                              !.buf0 = ConstBuf(BufLen, u)]
    /\ UNCHANGED nonGenVars

\* one frame of the recursion
GenStep ==
    /\ pc = "ready"
    /\ gen.status = "running"
    /\ \E uE, uA \in GDraws : gen' = genDecayChainRnd(sys, gen, uE, uA)
    /\ UNCHANGED nonGenVars

\* after the call has returned: the same call again, with a buffer that holds
\* the values the first call was given
GenAgain ==
    /\ pc = "ready"
    /\ gen.status = "returned"
    /\ ~gen.again
    /\ gen' = [NoGen EXCEPT !.status = "running", !.n = gen.arg, !.arg = gen.arg,
                            !.buf = gen.buf0, !.buf0 = gen.buf0,
                            !.v0 = gen.v, !.again = TRUE]
    /\ UNCHANGED nonGenVars

GenInit == SysInitWith(LevelInputs(HLZero \cup HLOne({1})))

GenNext ==
    \/ AddGamma(DownPairs, ChainIgammaPcts, CEChoices)
    \/ EndGamma({FALSE}, AugerChoices)
    \/ AddBeta(ParentPairs)
    \/ AddECaptAuto
    \/ AddECapt(ParentPairs)
    \/ Finish({0})
    \/ GenCall
    \/ GenStep
    \/ GenAgain

GenSpec == GenInit /\ [][GenNext]_vars

(* ------------------ firing of conversion transitions ------------------ *)

\* gamma records from the first excited level to the ground level
RunPairs == {<<1, 0>>}

\* the conversion fields of those records: none, CE_K = 1, or CE_K = 1@1:1
\* and CE_L = 2@1:3 (two subshells each)
RunCEChoices ==
    CEChoices \cup
    {<<[p |-> ROne, ss |-> <<ROne, ROne>>],
       [p |-> <<2, 1>>, ss |-> <<ROne, <<3, 1>>>>]>>}

\* the value that every slot of the buffer holds: k/RunDen
RunDen == 16
RunBufVals == {Rat(k, RunDen) : k \in 0 .. RunDen - 1}

\* a call genDecayChain(v, rnd, n) from the first excited level or without a
\* start level
RunCall ==
    /\ pc = "ready"
    /\ gen.status = "idle"
    /\ \E n \in {1, NLev}, u \in RunBufVals :
         gen' = [NoGen EXCEPT !.status = "running", !.n = n, !.arg = n,
                              !.buf = ConstBuf(BufLen, u),
                              !.buf0 = ConstBuf(BufLen, u)]
    /\ UNCHANGED nonGenVars

RunNext ==
    \/ AddGamma(RunPairs, ChainIgammaPcts, RunCEChoices)
    \/ EndGamma({FALSE}, AugerChoices)
    \/ Finish({0})
    \/ RunCall
    \/ GenStep

RunSpec == SysInitWith(LevelInputs(HLZero)) /\ [][RunNext]_vars

(* ------------------------- atoms without Auger ------------------------ *)

\* the AugerK record of the daughter: Iauger = 0 (or absent) and no k field,
\* or a k field of 0
ZeroAugers ==
    {<<[Z |-> 1, Iauger |-> 0, k |-> <<>>]>>,
     <<[Z |-> 1, Iauger |-> 0, k |-> <<0>>]>>}

\* the values of gRandom->Uniform(0,1): values of [0,1)
UniformDraws == {RZero} \cup GDraws

\* one frame of the recursion, gRandom drawing from [0,1)
AugerStep ==
    /\ pc = "ready"
    /\ gen.status = "running"
    /\ \E uE, uA \in UniformDraws : gen' = genDecayChainRnd(sys, gen, uE, uA)
    /\ UNCHANGED nonGenVars

AugerNext ==
    \/ AddGamma(DownPairs, ChainIgammaPcts, CEChoices)
    \/ EndGamma({FALSE}, ZeroAugers)
    \/ Finish({0})
    \/ RunCall
    \/ AugerStep

AugerSpec == SysInitWith(LevelInputs(HLZero)) /\ [][AugerNext]_vars

(* ------------------------- claims on PSelector ------------------------ *)

\* weight of bin n (0-based) of selector c
BinWeight(c, n) == RSub(c[n + 2], c[n + 1])

PositiveBins(c) == {n \in 0 .. getN(c) - 1 : RLt(RZero, BinWeight(c, n))}

SuppliedInUnit ==
    /\ selIn.supplied
    /\ RLe(RZero, selIn.x) /\ RLt(selIn.x, ROne)

\* C1: select with a supplied x in [0,1) on a selector of positive total
\* weight returns the bin i with cum[i] <= x*total < cum[i+1] (never a
\* zero-weight bin) and leaves (x*total - cum[i]) / (cum[i+1] - cum[i]) in x.
C1_SelectBin ==
    (SuppliedInUnit /\ RLt(RZero, getCumProb(cumprob))) =>
        LET xt == RMul(selIn.x, getCumProb(cumprob))
            i == selOut.idx
        IN  /\ selOut.ok
            /\ i \in 0 .. getN(cumprob) - 1
            /\ RLe(cumprob[i + 1], xt) /\ RLt(xt, cumprob[i + 2])
            /\ i \in PositiveBins(cumprob)
            /\ selOut.x = RDiv(RSub(xt, cumprob[i + 1]),
                               RSub(cumprob[i + 2], cumprob[i + 1]))

\* a select that skipped a zero-weight bin and left a residual strictly
\* inside the bin
C1_Witness ==
    /\ SuppliedInUnit
    /\ selOut.ok
    /\ \E n \in 0 .. selOut.idx - 1 : BinWeight(cumprob, n) = RZero
    /\ RLt(RZero, selOut.x)

SweepStarted == sweepIdx # <<>>
SweepDone == Len(sweepIdx) = XDen

\* C2: on a selector with positive-weight bins, as x sweeps upwards over
\* [0,1) the returned index never decreases, every residual lies in [0,1),
\* and the complete sweep returns exactly the positive-weight bins.
C2_Sweep ==
    (SweepStarted /\ PositiveBins(cumprob) # {}) =>
        /\ \A k \in DOMAIN sweepIdx : sweepIdx[k] \in 0 .. getN(cumprob) - 1
        /\ \A j, k \in DOMAIN sweepIdx : j < k => sweepIdx[j] <= sweepIdx[k]
        /\ \A k \in DOMAIN sweepRes :
              RLe(RZero, sweepRes[k]) /\ RLt(sweepRes[k], ROne)
        /\ SweepDone =>
              {sweepIdx[k] : k \in DOMAIN sweepIdx} = PositiveBins(cumprob)

\* a complete sweep over a selector with two positive bins around a
\* zero-weight one
C2_Witness ==
    /\ SweepDone
    /\ Cardinality(PositiveBins(cumprob)) = 2
    /\ getN(cumprob) = 3
    /\ BinWeight(cumprob, 1) = RZero

Called == selIn # NoIn

\* C4: select returns only indices of existing bins; with total weight 0
\* (also with no bins) or a supplied x outside [0,1) (x = 1 included) it
\* fails an assertion.
C4_SelectFails ==
    Called =>
        /\ selOut.ok => selOut.idx \in 0 .. getN(cumprob) - 1
        /\ getCumProb(cumprob) = RZero => ~selOut.ok
        /\ (selIn.supplied /\ ~SuppliedInUnit) => ~selOut.ok

\* x = 1 passed the range assertion and failed the second one
C4_Witness ==
    /\ Called
    /\ selIn = [supplied |-> TRUE, x |-> ROne]
    /\ RLt(RZero, getCumProb(cumprob))
    /\ ~selOut.ok
    /\ selOut.x = getCumProb(cumprob)

(* --------------------- claims on NucDecaySystem ----------------------- *)

Ready == pc = "ready"

LevelNs == 0 .. Len(sys.levels) - 1

\* the probabilities getProb(0), ..., getProb(N-1) of a selector
Probs(c) == [k \in 1 .. getN(c) |-> getProb(c, k - 1)]

MadeFluxOut(n) ==
    RSum([i \in DOMAIN made |-> IF sys.transitions[i].from = n THEN made[i] ELSE RZero])
MadeFluxIn(n) ==
    RSum([i \in DOMAIN made |-> IF sys.transitions[i].to = n THEN made[i] ELSE RZero])

\* every Itotal and every level flux is k times what the records gave
RescaledBy(k) ==
    /\ \A i \in DOMAIN made : sys.transitions[i].Itotal = RMul(k, made[i])
    /\ \A n \in LevelNs :
         /\ sys.levels[n + 1].fluxOut = RMul(k, MadeFluxOut(n))
         /\ sys.levels[n + 1].fluxIn = RMul(k, MadeFluxIn(n))

CommonFactor ==
    sys.transitions # <<>> /\
    \E i \in DOMAIN made :
        made[i] # RZero /\ RescaledBy(RDiv(sys.transitions[i].Itotal, made[i]))

\* constructed, and not rescaled since
Constructed == Ready /\ scaleHist = <<>>

\* C6 as stated: with ground state normalization requested, the constructed
\* system has all Itotal and all level fluxes rescaled by one common factor
\* and the influx of its zero-outflux levels sums to 1.
C6_AsStated ==
    (Constructed /\ norm) => (CommonFactor /\ GsFlux(sys) = ROne)

OnlyGammas == \A i \in DOMAIN sys.transitions : sys.transitions[i].kind = "gamma"

\* C6, amended: with ground state normalization requested (and a nonzero
\* flux into the zero-outflux levels), the gamma transitions and the level
\* fluxes are rescaled by one common factor so that the influx of the
\* zero-outflux levels sums to 1; this holds from the normalization until a
\* beta or electron capture transition is added (they are added unscaled),
\* and of the constructed system when it holds gamma transitions only.
C6_GammaNormalized ==
    (norm /\ pc \in {"beta", "ecapt", "ready"} /\ OnlyGammas /\ scaleHist = <<>>) =>
        (CommonFactor /\ GsFlux(sys) = ROne)

\* a constructed system of two gammas that was rescaled by a factor other than 1
C6_Witness ==
    /\ Constructed /\ norm /\ OnlyGammas
    /\ Len(sys.transitions) = 2
    /\ sys.transitions[1].Itotal # made[1]

\* the Itotal of all transitions after the k-th scale call
ItotalsAfter(k) ==
    IF k < Len(scaleHist) THEN scaleHist[k + 1].I ELSE AllItotals(sys)

Influx(n) ==
    RSum([i \in DOMAIN sys.transitions |->
            IF sys.transitions[i].to = n THEN sys.transitions[i].Itotal ELSE RZero])

HasOut(n) == \E i \in DOMAIN sys.transitions : sys.transitions[i].from = n

\* the constructor ends with setCutoff(t)
AfterSetCutoff == Ready /\ lastOp = "setCutoff"

\* C8: after setCutoff(t) the chain-start selector has one bin per level:
\* weight 1 for the last level; the summed Itotal of the inbound transitions
\* for any other level with half-life > t and an outgoing transition; 0 for
\* every other level.
C8_StartWeights ==
    AfterSetCutoff =>
        /\ getN(sys.lStart) = Len(sys.levels)
        /\ \A n \in LevelNs :
             BinWeight(sys.lStart, n) =
                IF n = Len(sys.levels) - 1 THEN ROne
                ELSE IF sys.levels[n + 1].hl > sys.tcut /\ HasOut(n) THEN Influx(n)
                ELSE RZero

\* after a setCutoff call on a rescaled system a long-lived intermediate
\* level has a positive start weight
C8_Witness ==
    /\ Ready /\ lastOp = "setCutoff"
    /\ scaleHist # <<>>
    /\ \E n \in LevelNs :
         /\ n # Len(sys.levels) - 1
         /\ RLt(RZero, BinWeight(sys.lStart, n))
         /\ BinWeight(sys.lStart, n) # ROne

\* C9: a setCutoff(t) call on a constructed system changes only tcut and the
\* chain-start selector: levels (indices, fluxIn, fluxOut), transitions
\* (Itotal), transIn, transOut and the per-level decay selectors (hence
\* their probabilities) are as before.
C9_SetCutoffFrame ==
    [][(Ready /\ lastOp' = "setCutoff") =>
          /\ sys'.levels = sys.levels
          /\ sys'.transitions = sys.transitions
          /\ sys'.transIn = sys.transIn
          /\ sys'.transOut = sys.transOut
          /\ sys'.levelDecays = sys.levelDecays]_vars

\* a setCutoff call on a rescaled system with an unevenly branching level
C9_Witness ==
    /\ Ready /\ lastOp = "setCutoff"
    /\ scaleHist # <<>> /\ scaleHist[1].s = <<1, 2>>
    /\ \E n \in LevelNs :
         /\ getN(sys.levelDecays[n + 1]) = 2
         /\ BinWeight(sys.levelDecays[n + 1], 0) # BinWeight(sys.levelDecays[n + 1], 1)

(* ----------------------- claims on genDecayChain ---------------------- *)

Running == chain.status = "running"

\* C10 as stated: a genDecayChain call fires at most as many transitions as
\* the system has levels.
C10_AsStated == chain.fired <= Len(sys.levels)

\* every transition goes to a level of strictly lower energy
Decreasing ==
    \A i \in DOMAIN sys.transitions :
        sys.levels[sys.transitions[i].to + 1].E < sys.levels[sys.transitions[i].from + 1].E

\* the largest number of transitions a call about to run the frame of
\* level n can still fire when every transition lowers the level index
Remaining == IF chain.n >= Len(sys.levels) THEN Len(sys.levels) - 1 ELSE chain.n

\* C10, amended: on a constructed system all of whose transitions go to a
\* level of strictly lower energy, every genDecayChain call terminates,
\* after firing at most as many transitions as the system has levels: no
\* frame fails, and each frame of a running call (the next one can always
\* run, the count being below the bound ChainStep follows it to) ends the
\* call or fires one transition and lowers the number of transitions that
\* can still fire.
C10_DecreasingTerminates ==
    Decreasing =>
        /\ chain.fired <= Len(sys.levels)
        /\ Running => chain.fired + Remaining <= Len(sys.levels) - 1
        /\ chain.status # "failed"

\* a chain that fell from the top level through the middle one to the ground
C10_Witness ==
    /\ Decreasing
    /\ chain.status = "returned"
    /\ chain.fired = 2
    /\ chain.n = 0

\* the test graph: a transition of intensity 100% from every level but the
\* lowest to the level next below it, and no other transition (with three
\* levels: top to middle, middle to ground)
TestGraph ==
    /\ Len(sys.transitions) = Len(sys.levels) - 1
    /\ \A n \in 1 .. Len(sys.levels) - 1 :
         \E i \in DOMAIN sys.transitions :
            /\ sys.transitions[i].from = n
            /\ sys.transitions[i].to = n - 1
            /\ sys.transitions[i].Itotal = ROne

Top == Len(sys.levels) - 1

\* a call that has returned and whose first frame was at the top level
ReturnedFromTop == Ready /\ chain.status = "returned" /\ chain.first = Top

\* C11 as stated: in the test graph a chain started at the top level fires a
\* transition out of every level but the ground level (2 of 3 levels)
C11_AsStated == TestGraph /\ ReturnedFromTop => chain.fired = Top

\* the half-life of no level between top and ground exceeds the cutoff, nor
\* does that of the top level when the call names it as its start level
PromptLevels ==
    /\ \A n \in 1 .. Top - 1 : ~(sys.levels[n + 1].hl > sys.tcut)
    /\ chain.arg = Top => ~(sys.levels[Top + 1].hl > sys.tcut)

\* C11: in the test graph, when the half-life of the middle level does not
\* exceed the cutoff (nor that of the top level when the call names the top
\* level as its start), a chain started at the top level fires exactly one
\* transition per level above the ground level (2 with three levels)
C11_PromptChain ==
    TestGraph /\ ReturnedFromTop /\ PromptLevels => chain.fired = Top

\* a chain in the test graph that the start selector started at the top level
\* has fired its 2 transitions and returned at the ground level
C11_Witness ==
    /\ TestGraph /\ ReturnedFromTop /\ PromptLevels
    /\ chain.arg = Len(sys.levels)
    /\ chain.fired = 2
    /\ chain.last = 0

\* the frame of a running call has run at the level chain'.last
FrameRan == chain.status = "running" /\ chain' # chain /\ chain'.status # "failed"

\* C19: a frame of genDecayChain fires a transition out of its level if and
\* only if the level has nonzero outflux and either the frame is the
\* initiating one (the call named no start level and the frame drew it from
\* lStart) or the half-life of the level does not exceed the cutoff; the
\* first frame of a call that names its start level is not initiating
C19_FiresIff ==
    [][FrameRan =>
        ((chain'.fired = chain.fired + 1)
            <=> /\ sys.levels[chain'.last + 1].fluxOut # RZero
                /\ \/ chain.n >= Len(sys.levels)
                   \/ sys.levels[chain'.last + 1].hl <= sys.tcut)]_vars

\* a call that named a start level with outflux whose half-life exceeds the
\* cutoff has returned without firing a transition
C19_Witness ==
    /\ Ready /\ chain.status = "returned"
    /\ chain.arg < Len(sys.levels)
    /\ chain.last = chain.arg
    /\ sys.levels[chain.arg + 1].fluxOut # RZero
    /\ sys.levels[chain.arg + 1].hl > sys.tcut
    /\ chain.fired = 0

(* -------------------------- claims on getNDF -------------------------- *)

\* the largest element of a nonempty finite set of numbers
Largest(ns) == CHOOSE m \in ns : \A k \in ns : k <= m

\* the transitions out of level n
Outgoing(n) == {i \in DOMAIN sys.transitions : sys.transitions[i].from = n}

\* the levels that the start selector can select
StartLevels == {i \in LevelNs : getProb(sys.lStart, i) # RZero}

\* getNDF returns for every level and for no level, with the values of the
\* claim: for a level the largest T.getNDF() + getNDF(T.to) over the
\* transitions T out of it (0 without one), for no level the largest
\* getNDF(i) over the levels i of nonzero chain-start probability
NDFAsClaimed ==
    /\ \A n \in LevelNs :
         /\ getNDF(sys, n) # -1
         /\ getNDF(sys, n) =
               Largest({0} \cup {TgetNDF(sys.transitions[i])
                                  + getNDF(sys, sys.transitions[i].to) :
                                i \in Outgoing(n)})
    /\ \A i \in DOMAIN sys.transitions :
         getNDF(sys, sys.transitions[i].from) >=
            TgetNDF(sys.transitions[i]) + getNDF(sys, sys.transitions[i].to)
    /\ getNDF(sys, Len(sys.levels)) =
          Largest({0} \cup {getNDF(sys, i) : i \in StartLevels})

\* C20 as stated: getNDF has the claimed values on every constructed system
C20_AsStated == Ready => NDFAsClaimed

\* C20: on a constructed system all of whose transitions go to a level of
\* strictly lower energy, getNDF(n) of a level n is the largest
\* T.getNDF() + getNDF(T.to) over the transitions T out of n (0 without
\* one), so getNDF(T.from) >= T.getNDF() + getNDF(T.to) for every T, and
\* getNDF without a level is the largest getNDF(i) over the levels i whose
\* chain-start probability is not zero
C20_DecreasingNDF == (Ready /\ Decreasing) => NDFAsClaimed

\* a beta decay of the parent to the middle level and a gamma from there to
\* the ground level: getNDF is 3 + 2 for the parent and for no level
C20_Witness ==
    /\ Ready /\ Decreasing
    /\ Len(sys.transitions) = 2
    /\ getNDF(sys, Len(sys.levels) - 1) = 5
    /\ getNDF(sys, Len(sys.levels)) = 5
    /\ getNDF(sys, 0) = 0

RECURSIVE FedWithin(_, _)
\* the levels that chains of at most k transitions from level j can reach
FedWithin(j, k) ==
    IF k = 0 THEN {j}
    ELSE LET near == FedWithin(j, k - 1)
         IN  near \cup {sys.transitions[i].to :
                          i \in {m \in DOMAIN sys.transitions :
                                    sys.transitions[m].from \in near}}

\* the levels below j that a chain from j can reach
Downstream(j) == FedWithin(j, Len(sys.levels)) \ {j}

\* C21 as stated: getNDF does not decrease with the level index
C21_AsStated ==
    Ready => \A i, j \in LevelNs :
                i < j => /\ getNDF(sys, i) # -1 /\ getNDF(sys, j) # -1
                         /\ getNDF(sys, i) <= getNDF(sys, j)

\* C21: on a constructed system all of whose transitions go to a level of
\* strictly lower energy, getNDF(i) <= getNDF(j) for any two levels i < j
\* such that a chain of transitions leads from j to i
C21_DownstreamNDF ==
    (Ready /\ Decreasing) =>
        \A j \in LevelNs : \A i \in Downstream(j) :
            i < j /\ getNDF(sys, i) # -1 /\ getNDF(sys, i) <= getNDF(sys, j)

\* an electron capture of the parent to the middle level, which has a gamma
\* to the ground level: getNDF is 0, 2 and 0 + 2 from the ground level up
C21_Witness ==
    /\ Ready /\ Decreasing
    /\ Downstream(Top) = 0 .. Top - 1
    /\ \E i \in DOMAIN sys.transitions : sys.transitions[i].kind = "ecapt"
    /\ getNDF(sys, 0) = 0
    /\ getNDF(sys, 1) = 2
    /\ getNDF(sys, Top) = 2

(* ---------------- claims on genDecayChain with a buffer ---------------- *)

\* a call with a buffer that has run at least one frame
GenCalled == pc = "ready" /\ gen.status \in {"running", "returned"} /\ gen.offs # {}

\* C12 as stated: the cursor of a genDecayChain call with a buffer advances by
\* at most getNDF(start) in all, and every slot the call reads has an index
\* below getNDF(start), start being the n the call was given
C12_AsStated ==
    GenCalled =>
        /\ gen.cur <= getNDF(sys, gen.arg)
        /\ \A k \in gen.reads : k < getNDF(sys, gen.arg)

\* C13 as stated: a genDecayChain call and its repetition with a buffer of
\* the same values append the same events
C13_AsStated ==
    (pc = "ready" /\ gen.again /\ gen.status = "returned") => gen.v = gen.v0

\* the slots whose value differs from the one the caller passed
Changed == {k \in 0 .. BufLen - 1 : gen.buf[k + 1] # gen.buf0[k + 1]}

\* C14 as stated: after a genDecayChain call every slot of the buffer holds
\* the value it held before the call
C14_AsStated == (pc = "ready" /\ gen.status = "returned") => Changed = {}

\* C14: a genDecayChain call changes the buffer only in the slots at which
\* the rnd of one of its frames pointed (slot 0 and the slots at the summed
\* getNDF() of the transitions fired before the frame), where select leaves
\* its residual; every other slot holds the value it held before the call
C14_WritesAtCursors == GenCalled => Changed \subseteq gen.offs

\* a call that fired two transitions and left residuals in the slots at the
\* cursors of its first and of its second frame
C14_Witness ==
    /\ pc = "ready" /\ gen.status = "returned"
    /\ gen.fired = 2
    /\ Cardinality(Changed) = 2

(* ----------------------- loading the level names ---------------------- *)
(* A level record of the file is [nm, E, hl], nm being the parts of the    *)
(* nm field between its dots (split(name,".")); a transition record names  *)
(* its levels by such names.  file = [levs, levelIndex, last, err]: the    *)
(* level records in file order, the map levelIndex from a name to n, the   *)
(* transition record processed last, and the exception that ended the      *)
(* construction.                                                           *)

\* the name of the level of energy e: the highest level is the parent
\* nuclide (Z = 2), the others are levels of the daughter (Z = 1)
ProperName(e) == <<1, IF e = NLev - 1 THEN 2 ELSE 1, e>>
\* a name of two parts
ShortName == <<1, 1>>
\* a well-formed name that no level record has
StrangeName == <<1, 1, NLev>>

\* the energies of the level records in file order: ascending or descending
FileOrders == {[k \in 1 .. NLev |-> k - 1], [k \in 1 .. NLev |-> NLev - k]}

\* the level records of a file: every level under its own name, or one
\* record with the name of the lowest level or with a name of two parts
FileLevels ==
    {[k \in 1 .. NLev |-> [nm |-> ProperName(es[k]), E |-> es[k], hl |-> 0]] :
        es \in FileOrders}
    \cup {[k \in 1 .. NLev |->
             [nm |-> IF k = j THEN bad ELSE ProperName(es[k]),
              E |-> es[k], hl |-> 0]] :
          es \in FileOrders, j \in 1 .. NLev, bad \in {ProperName(0), ShortName}}

\* the names a transition record may hold
RefNames == {ProperName(e) : e \in 0 .. NLev - 1} \cup {StrangeName}

\* std::sort(levels.begin(),levels.end(),sortLevels) of records of distinct
\* energies: the record of the k-th lowest energy comes k-th
SortLevels(recs) ==
    [k \in DOMAIN recs |->
        CHOOSE r \in {recs[i] : i \in DOMAIN recs} :
            Cardinality({i \in DOMAIN recs : recs[i].E < r.E}) = k - 1]

RECURSIVE MakeLevelIndex(_, _, _)
\* the loop that numbers the sorted levels from the k-th on: [ok, idx], ok
\* false when the smassert on levelIndex.find(l.name) fails
MakeLevelIndex(recs, k, idx) ==
    IF k > Len(recs) THEN [ok |-> TRUE, idx |-> idx]
    ELSE IF recs[k].nm \in DOMAIN idx THEN [ok |-> FALSE, idx |-> idx]
    ELSE MakeLevelIndex(recs, k + 1, idx @@ (recs[k].nm :> k - 1))

\* a name that is not in levelIndex gets the index 0
levIndex_zero(idx, nm) ==
    IF nm \in DOMAIN idx THEN [ok |-> TRUE, n |-> idx[nm], err |-> NoErr]
    ELSE [ok |-> TRUE, n |-> 0, err |-> NoErr]

\* NucDecaySystem::levIndex(s): [ok, n, err], err the exception thrown
levIndex(idx, nm) ==
    IF nm \in DOMAIN idx THEN [ok |-> TRUE, n |-> idx[nm], err |-> NoErr]
    ELSE [ok |-> FALSE, n |-> 0, err |-> [what |-> "UnknownLevel", name |-> nm]]

\* the two levIndex calls in the arguments of a constructor call, which the
\* compiler may evaluate in either order: the possible outcomes
\* [ok, from, to, err]
LevIndexBoth(idx, f, t) ==
    LET a == levIndex(idx, f)
        b == levIndex(idx, t)
    IN  IF a.ok /\ b.ok
        THEN {[ok |-> TRUE, from |-> a.n, to |-> b.n, err |-> NoErr]}
        ELSE {[ok |-> FALSE, from |-> 0, to |-> 0, err |-> r.err] :
                 r \in {x \in {a, b} : ~x.ok}}

\* the levIndex call of Lorig and then of Ldest in an ecapt record
LevIndexSeq(idx, f, t) ==
    LET a == levIndex(idx, f)
        b == levIndex(idx, t)
    IN  IF ~a.ok THEN [ok |-> FALSE, from |-> 0, to |-> 0, err |-> a.err]
        ELSE IF ~b.ok THEN [ok |-> FALSE, from |-> 0, to |-> 0, err |-> b.err]
        ELSE [ok |-> TRUE, from |-> a.n, to |-> b.n, err |-> NoErr]

\* the exception of a failed smassert
AssertionFailed == [what |-> "assert", name |-> <<>>]

\* the constructor up to the numbering of the levels: NucLevel(l) of each
\* level record, the sort, levelIndex; [ok, S, idx, err]
LoadLevelRecords(recs) ==
    LET sorted == SortLevels(recs)
        index == MakeLevelIndex(sorted, 1, <<>>)
        none == SystemOfLevels(<<>>)
    IN  IF \E k \in DOMAIN recs : Len(recs[k].nm) # 3
        THEN [ok |-> FALSE, S |-> none, idx |-> <<>>, err |-> AssertionFailed]
        ELSE IF ~index.ok
        THEN [ok |-> FALSE, S |-> none, idx |-> <<>>, err |-> AssertionFailed]
        ELSE [ok |-> TRUE, idx |-> index.idx, err |-> NoErr,
              S |-> SystemOfLevels(
                       [k \in DOMAIN sorted |->
                           NucLevelNew(sorted[k].E, sorted[k].hl,
                                       sorted[k].nm[1], sorted[k].nm[2])])]

\* the level records of the file
LoadLevels ==
    /\ pc = "levels"
    /\ LET c == LoadLevelRecords(file.levs)
       IN  /\ pc' = IF c.ok THEN "gamma" ELSE "failed"
           /\ file' = [file EXCEPT !.levelIndex = c.idx, !.err = c.err]
           /\ sys' = c.S
    /\ UNCHANGED <<norm, nrec, lastOp, scaleHist, made, chain, selVars, genVars, lib>>

\* what a transition record leaves in file
Processed(kind, f, t, err) ==
    [file EXCEPT !.last = [kind |-> kind, from |-> f, to |-> t], !.err = err]

\* one gamma record, its levels given by name
LoadGamma ==
    /\ pc = "gamma"
    /\ nrec < MaxTrans
    /\ \E f, t \in RefNames, ig \in ChainIgammaPcts :
         \E o \in LevIndexBoth(file.levelIndex, f, t) :
            /\ file' = Processed("gamma", f, t, o.err)
            /\ IF o.ok
               THEN /\ sys' = addTransition(sys,
                                  ConversionGammaNew(o.from, o.to, ig, <<>>))
                    /\ pc' = pc
               ELSE sys' = sys /\ pc' = "failed"
    /\ nrec' = nrec + 1
    /\ made' = MadeAfter(sys')
    /\ UNCHANGED <<norm, lastOp, scaleHist, chain, selVars, genVars, lib>>

\* one beta record, its levels given by name
LoadBeta ==
    /\ pc = "beta"
    /\ nrec < MaxTrans
    /\ \E f, t \in RefNames, i \in BetaPcts :
         \E o \in LevIndexBoth(file.levelIndex, f, t) :
            /\ file' = Processed("beta", f, t, o.err)
            /\ IF o.ok
               THEN /\ sys' = addTransition(sys, BetaDecayTransNew(o.from, o.to, i))
                    /\ pc' = pc
               ELSE sys' = sys /\ pc' = "failed"
    /\ nrec' = nrec + 1
    /\ made' = MadeAfter(sys')
    /\ UNCHANGED <<norm, lastOp, scaleHist, chain, selVars, genVars, lib>>

\* one ecapt record that names its destination
LoadECapt ==
    /\ pc \in {"beta", "ecapt"}
    /\ nrec < MaxTrans
    /\ \E f, t \in RefNames, i \in ECaptIs :
         LET o == LevIndexSeq(file.levelIndex, f, t)
         IN  IF ~o.ok
             THEN /\ file' = Processed("ecapt", f, t, o.err)
                  /\ sys' = sys /\ pc' = "failed"
             ELSE IF ~ECaptAllowed(sys.levels[o.from + 1], sys.levels[o.to + 1])
             THEN /\ file' = Processed("ecapt", f, t, AssertionFailed)
                  /\ sys' = sys /\ pc' = "failed"
             ELSE /\ file' = Processed("ecapt", f, t, NoErr)
                  /\ sys' = addTransition(sys, ECaptureNew(o.from, o.to, i))
                  /\ pc' = "ecapt"
    /\ nrec' = nrec + 1
    /\ made' = MadeAfter(sys')
    /\ UNCHANGED <<norm, lastOp, scaleHist, chain, selVars, genVars, lib>>

LoadInit ==
    /\ cumprob = PSelectorNew
    /\ selIn = NoIn
    /\ selOut = NoCall
    /\ sweepIdx = <<>>
    /\ sweepRes = <<>>
    /\ selHist = <<>>
    /\ \E levs \in FileLevels : file = [NoFile EXCEPT !.levs = levs]
    /\ lib = NoLib
    /\ sys = SystemOfLevels(<<>>)
    /\ pc = "levels"
    /\ norm = FALSE
    /\ nrec = 0
    /\ lastOp = "load"
    /\ scaleHist = <<>>
    /\ made = <<>>
    /\ chain = NoChain
    /\ gen = NoGen

LoadNext ==
    \/ LoadLevels
    \/ LoadGamma
    \/ EndGamma({FALSE}, NoAugers)
    \/ LoadBeta
    \/ LoadECapt
    \/ Finish({0})

LoadSpec == LoadInit /\ [][LoadNext]_vars

(* --------------------------- NucDecayLibrary -------------------------- *)
(* A library is a record L = [NDs, cantdothis, serial, built, first]: NDs  *)
(* maps a name to the system made for it, [id, S], id telling the objects  *)
(* made by new apart; serial is the id of the next object; built[nm]       *)
(* counts the NucDecaySystem constructors that returned for nm, first[nm]  *)
(* is the id of the system the first getGenerator(nm) that returned gave   *)
(* (-1: none yet).  The decay data files do not change while the library   *)
(* is in use.                                                              *)

\* the level records of the data files: "Co60" and "Xe135" are sound (in
\* ascending and in descending order of energy), "In114" has a level name
\* twice, "Cd113" has a name of two parts; "H3" has no file
LibFiles ==
    [nm \in {"Co60", "Xe135", "In114", "Cd113"} |->
        [k \in 1 .. NLev |->
            LET e == IF nm = "Xe135" THEN NLev - k ELSE k - 1
            IN  [nm |-> IF nm = "In114" /\ k = NLev THEN ProperName(0)
                        ELSE IF nm = "Cd113" /\ k = 1 THEN ShortName
                        ELSE ProperName(e),
                 E |-> e, hl |-> 0]]]

LibNames == DOMAIN LibFiles \cup {"H3"}

\* fileExists(datpath+"/"+nm+".txt")
fileExists(nm) == nm \in DOMAIN LibFiles

\* new NucDecaySystem(SMFile(fname),BEL,tcut) of a file of level records:
\* [ok, S, err]
NucDecaySystemNew(recs, tcut) ==
    LET c == LoadLevelRecords(recs)
    IN  IF c.ok THEN [ok |-> TRUE, S |-> setCutoff(c.S, tcut), err |-> NoErr]
        ELSE [ok |-> FALSE, S |-> c.S, err |-> c.err]

NucDecayLibraryNew ==
    [NDs |-> <<>>, cantdothis |-> {}, serial |-> 0,
     built |-> [nm \in LibNames |-> 0], first |-> [nm \in LibNames |-> -1]]

\* what a call returned: a system, a truth value, or an exception
Returned(id) == [kind |-> "system", id |-> id, err |-> NoErr]
Answered(b) == [kind |-> "bool", id |-> IF b THEN 1 ELSE 0, err |-> NoErr]
Thrown(err) == [kind |-> "throw", id |-> -1, err |-> err]

\* the entry of nm is made before the system is constructed
getGenerator_early(L, nm) ==
    IF nm \in DOMAIN L.NDs THEN [L |-> L, res |-> Returned(L.NDs[nm].id)]
    ELSE IF ~fileExists(nm)
    THEN [L |-> L,
          res |-> Thrown([what |-> "MissingDecayData", name |-> nm])]
    ELSE LET c == NucDecaySystemNew(LibFiles[nm], 0)
             M == [L EXCEPT !.serial = @ + 1,
                            !.NDs = @ @@ (nm :> [id |-> L.serial, S |-> c.S])]
         IN  IF ~c.ok THEN [L |-> M, res |-> Thrown(c.err)]
             ELSE [L |-> [M EXCEPT !.built[nm] = @ + 1],
                   res |-> Returned(L.serial)]

\* NucDecayLibrary::getGenerator(nm): [L, res], the library after the call
\* and what the call returned or threw
getGenerator(L, nm) ==
    IF nm \in DOMAIN L.NDs THEN [L |-> L, res |-> Returned(L.NDs[nm].id)]
    ELSE IF ~fileExists(nm)
    THEN [L |-> L,
          res |-> Thrown([what |-> "MissingDecayData", name |-> nm])]
    ELSE LET c == NucDecaySystemNew(LibFiles[nm], 0)
             M == [L EXCEPT !.serial = @ + 1]
         IN  IF ~c.ok THEN [L |-> M, res |-> Thrown(c.err)]
             ELSE [L |-> [M EXCEPT
                            !.NDs = @ @@ (nm :> [id |-> L.serial, S |-> c.S]),
                            !.built[nm] = @ + 1],
                   res |-> Returned(L.serial)]

\* NucDecayLibrary::hasGenerator(nm)
hasGenerator(L, nm) ==
    IF nm \in L.cantdothis THEN [L |-> L, res |-> Answered(FALSE)]
    ELSE LET g == getGenerator(L, nm)
         IN  IF g.res.kind = "system" THEN [L |-> g.L, res |-> Answered(TRUE)]
             ELSE [L |-> [g.L EXCEPT !.cantdothis = @ \cup {nm}],
                   res |-> Answered(FALSE)]

\* a call of getGenerator(nm) by the user of the library
GetGenerator ==
    /\ Len(lib.calls) < MaxCalls
    /\ \E nm \in LibNames :
         LET g == getGenerator(lib.L, nm)
             c == [op |-> "getGenerator", nm |-> nm, res |-> g.res]
         IN  lib' = [L |-> IF g.res.kind = "system" /\ g.L.first[nm] = -1
                           THEN [g.L EXCEPT !.first[nm] = g.res.id] ELSE g.L,
                     calls |-> Append(lib.calls, c)]
    /\ UNCHANGED <<selVars, sysVars, genVars, file>>

\* a call of hasGenerator(nm) by the user of the library
HasGenerator ==
    /\ Len(lib.calls) < MaxCalls
    /\ \E nm \in LibNames :
         LET h == hasGenerator(lib.L, nm)
             c == [op |-> "hasGenerator", nm |-> nm, res |-> h.res]
         IN  lib' = [L |-> h.L, calls |-> Append(lib.calls, c)]
    /\ UNCHANGED <<selVars, sysVars, genVars, file>>

LibInit ==
    /\ cumprob = PSelectorNew
    /\ selIn = NoIn
    /\ selOut = NoCall
    /\ sweepIdx = <<>>
    /\ sweepRes = <<>>
    /\ selHist = <<>>
    /\ file = NoFile
    /\ lib = [L |-> NucDecayLibraryNew, calls |-> <<>>]
    /\ sys = SystemOfLevels(<<>>)
    /\ pc = "none"
    /\ norm = FALSE
    /\ nrec = 0
    /\ lastOp = "none"
    /\ scaleHist = <<>>
    /\ made = <<>>
    /\ chain = NoChain
    /\ gen = NoGen

LibNext == GetGenerator \/ HasGenerator

LibSpec == LibInit /\ [][LibNext]_vars

(* ------------------------- scaling a selector ------------------------- *)

\* the factors of PSelector::scale: -1, 0, 1/2, 2 and +infinity
SelScales == {<<-1, 1>>, <<0, 1>>, <<1, 2>>, <<2, 1>>, <<1, 0>>}

\* the scale calls among the calls made of the selector
ScalesOf(h) == {i \in DOMAIN h : h[i].op = "scale"}

\* scale(s) on the selector under test
SelScale ==
    /\ Untouched
    /\ Cardinality(ScalesOf(selHist)) < MaxScale
    /\ \E s \in SelScales :
         /\ cumprob' = PSelScale(cumprob, s)
         /\ selHist' = Append(selHist, [op |-> "scale", v |-> s])
    /\ UNCHANGED <<selIn, selOut, sweepIdx, sweepRes, nonSelVars>>

ScaleNext == SelAddProb \/ SelScale

ScaleSpec == SelInit /\ [][ScaleNext]_vars

(* ---------- chains of a system normalized without ground flux --------- *)
(* The file may ask for the ground state normalization whatever its gamma  *)
(* records are; the beta records follow it.                                *)

NormInit == SysInitWith(LevelInputs(HLZero))

NormNext ==
    \/ AddGamma(DownPairs, ChainIgammaPcts, NoCE)
    \/ EndGamma(BOOLEAN, NoAugers)
    \/ AddBeta(ParentPairs)
    \/ Finish({0})
    \/ ChainCall
    \/ ChainStep

NormSpec == NormInit /\ [][NormNext]_vars

\* the constructor with its ecapt records, after a normalization that the
\* file may ask for whatever its gamma records are
ECaptNext ==
    \/ AddGamma(DownPairs, ChainIgammaPcts, NoCE)
    \/ EndGamma(BOOLEAN, NoAugers)
    \/ AddBeta(ParentPairs)
    \/ AddECaptAuto
    \/ AddECapt(ParentPairs)
    \/ Finish({0})

ECaptSpec == NormInit /\ [][ECaptNext]_vars

\* C15 as stated: of a system whose construction succeeded no genDecayChain
\* call fails an assertion; every call that ends ends by returning
C15_AsStated == pc = "ready" => chain.status # "failed"

(* ------------------------ claims on the loading ----------------------- *)

\* the names of the level records of the file
FileNames == {file.levs[k].nm : k \in DOMAIN file.levs}

\* the level record of the file with the name nm
FileLevel(nm) == CHOOSE r \in {file.levs[k] : k \in DOMAIN file.levs} : r.nm = nm

\* a level record whose name is not of three parts
MalformedName == \E k \in DOMAIN file.levs : Len(file.levs[k].nm) # 3

\* two level records of the same name
DuplicateName ==
    \E j, k \in DOMAIN file.levs : j # k /\ file.levs[j].nm = file.levs[k].nm

\* the record processed last names a level that no level record has
UnknownRef ==
    /\ file.last.kind \in {"gamma", "beta", "ecapt"}
    /\ {file.last.from, file.last.to} \ FileNames # {}

\* the record processed last is an ecapt record whose destination is not a
\* level of the same A, of Z one less and of lower energy than its origin
BadECaptTarget ==
    /\ file.last.kind = "ecapt"
    /\ {file.last.from, file.last.to} \subseteq FileNames
    /\ LET o == FileLevel(file.last.from)
           d == FileLevel(file.last.to)
       IN  ~(d.nm[1] = o.nm[1] /\ d.nm[2] + 1 = o.nm[2] /\ d.E < o.E)

\* C16: the construction ends in an error when a level name is not of three
\* parts or occurs twice (failed assertion), when a gamma, beta or ecapt
\* record names a level that no level record has (UnknownLevel, carrying one
\* such name of the record), and when the destination an ecapt record names
\* is not a level of the same A, Z - 1 and lower energy (failed assertion)
C16_ConstructionFails ==
    /\ (pc # "levels" /\ (MalformedName \/ DuplicateName))
          => (pc = "failed" /\ file.err = AssertionFailed)
    /\ UnknownRef
          => /\ pc = "failed"
             /\ file.err.what = "UnknownLevel"
             /\ file.err.name \in {file.last.from, file.last.to} \ FileNames
    /\ BadECaptTarget => (pc = "failed" /\ file.err = AssertionFailed)

\* a beta record that names an unknown level, after a gamma record that was
\* loaded, has ended the construction with UnknownLevel
C16_Witness ==
    /\ pc = "failed"
    /\ file.last.kind = "beta"
    /\ UnknownRef
    /\ Len(sys.transitions) = 1
    /\ file.err = [what |-> "UnknownLevel", name |-> StrangeName]

(* ------------------------ claims on the library ----------------------- *)

\* the construction of a system for nm fails: nm has no file, or its file
\* has a level name that is not of three parts or that occurs twice
ConstructionFails(nm) ==
    \/ nm \notin DOMAIN LibFiles
    \/ \E k \in 1 .. NLev : Len(LibFiles[nm][k].nm) # 3
    \/ \E j, k \in 1 .. NLev : j # k /\ LibFiles[nm][j].nm = LibFiles[nm][k].nm

\* the calls of op for nm, by their place in the history
CallsOf(op, nm) ==
    {i \in DOMAIN lib.calls : lib.calls[i].op = op /\ lib.calls[i].nm = nm}

\* C17: after any sequence of getGenerator and hasGenerator calls a name
\* whose construction fails has no entry in NDs, and every hasGenerator call
\* for it returned false; a name whose construction succeeds was constructed
\* at most once, its entry is a system whose constructor ran to its end, and
\* every getGenerator call for it returned the same system
C17_CacheHoldsConstructed ==
    \A nm \in LibNames :
        IF ConstructionFails(nm)
        THEN /\ nm \notin DOMAIN lib.L.NDs
             /\ \A i \in CallsOf("hasGenerator", nm) :
                   lib.calls[i].res = Answered(FALSE)
             /\ \A i \in CallsOf("getGenerator", nm) :
                   lib.calls[i].res.kind = "throw"
        ELSE /\ lib.L.built[nm] <= 1
             /\ nm \in DOMAIN lib.L.NDs =>
                   /\ lib.L.built[nm] = 1
                   /\ Len(lib.L.NDs[nm].S.levels) = NLev
                   /\ getN(lib.L.NDs[nm].S.lStart) = NLev
             /\ \A i \in CallsOf("hasGenerator", nm) :
                   lib.calls[i].res = Answered(TRUE)
             /\ \A i \in CallsOf("getGenerator", nm) :
                   lib.calls[i].res = Returned(lib.L.first[nm])

\* hasGenerator and then getGenerator were called for a name whose file is
\* defective, and getGenerator twice for a name whose file is sound
C17_Witness ==
    /\ Len(lib.calls) = 4
    /\ lib.calls[1] = [op |-> "hasGenerator", nm |-> "In114", res |-> Answered(FALSE)]
    /\ lib.calls[2].op = "getGenerator" /\ lib.calls[2].nm = "In114"
    /\ lib.calls[3].op = "getGenerator" /\ lib.calls[3].nm = "Co60"
    /\ lib.calls[4] = lib.calls[3]
    /\ DOMAIN lib.L.NDs = {"Co60"}

(* ------------------- claims on the scaled selector -------------------- *)

RECURSIVE WeightsOf(_)
\* the weights of the bins after the calls h: addProb(w) adds a bin of weight
\* w, scale(s) multiplies the weight of every bin by s
WeightsOf(h) ==
    IF h = <<>> THEN <<>>
    ELSE LET before == WeightsOf(SubSeq(h, 1, Len(h) - 1))
             c == h[Len(h)]
         IN  IF c.op = "addProb" THEN Append(before, c.v)
             ELSE [i \in DOMAIN before |-> RMul(before[i], c.v)]

\* the cumulative weights start at 0, do not decrease, and end at the total
\* weight
CumulativeOK ==
    /\ cumprob[1] = RZero
    /\ \A i \in 1 .. Len(cumprob) - 1 : RLe(cumprob[i], cumprob[i + 1])
    /\ cumprob[Len(cumprob)] = RSum(WeightsOf(selHist))

\* C18 as stated: after any sequence of addProb(w), w >= 0, and scale(s)
\* calls the cumulative weights start at 0, do not decrease and end at the
\* total weight
C18_AsStated == CumulativeOK

\* C18: after any sequence of addProb(w), w >= 0, and scale(s), s finite and
\* s >= 0, calls the cumulative weights start at 0, do not decrease and end
\* at the total weight
C18_NonNegativeScale ==
    (\A i \in ScalesOf(selHist) :
        IsFinite(selHist[i].v) /\ RLe(RZero, selHist[i].v)) => CumulativeOK

\* two bins of positive weight were added, the selector was scaled by 1/2,
\* and a third bin was added
C18_Witness ==
    /\ Len(selHist) = 4
    /\ selHist[3] = [op |-> "scale", v |-> <<1, 2>>]
    /\ selHist[4].op = "addProb"
    /\ \A i \in {1, 2, 4} : RLt(RZero, selHist[i].v)

(* -------------------- claims on the fired transition ------------------ *)

\* the transition that the call fired last
Fired == sys.transitions[gen.run.tr]

\* the call has fired a gamma/conversion transition last
GammaFired == pc = "ready" /\ gen.run.tr # 0 /\ Fired.kind = "gamma"

\* E(from) - E(to) of the transition fired last
EFired == Rat(sys.levels[Fired.from + 1].E - sys.levels[Fired.to + 1].E, 1)

\* the atom of the destination level of the transition fired last
AtomFired == sys.atoms[sys.levels[Fired.to + 1].Z]

\* the events that the frame of the transition fired last appended
NewEvents == SubSeq(gen.v, gen.run.at + 1, Len(gen.v))

\* C22: the firing of a gamma/conversion transition appends one event: a
\* gamma of energy E(from) - E(to) when shells.select returned the last bin,
\* otherwise an electron of that energy less the binding energy of shell k
\* (the bin returned, 0 = K) and of the subshell that the subshell selector
\* of shell k returned; what follows it in the frame are Auger electrons
C22_OneEvent ==
    GammaFired =>
        /\ Len(NewEvents) >= 1
        /\ Len(NewEvents) <= 1 + gen.run.nVacant
        /\ IF gen.run.sel.shellBin = getN(Fired.shells) - 1
           THEN NewEvents[1] = [d |-> "gamma", E |-> EFired]
           ELSE /\ gen.run.sel.shellBin \in 0 .. Len(Fired.subshells) - 1
                /\ gen.run.sel.subBin \in
                     0 .. getN(Fired.subshells[gen.run.sel.shellBin + 1]) - 1
                /\ NewEvents[1] =
                     [d |-> "e-",
                      E |-> RSub(EFired,
                                 getSubshellBinding(sys.levels[Fired.to + 1].Z,
                                                    gen.run.sel.shellBin,
                                                    gen.run.sel.subBin))]
        /\ \A k \in 2 .. Len(NewEvents) :
              NewEvents[k] = [d |-> "e-", E |-> AtomFired.Eauger]

\* a gamma/conversion transition fired as a conversion electron of the K shell
C22_Witness ==
    /\ GammaFired
    /\ gen.run.sel.shellBin = 0
    /\ getN(Fired.shells) = 2
    /\ NewEvents[1].d = "e-"
    /\ RLt(NewEvents[1].E, EFired)

\* the energies that a run of the transition T can give its event
RunEnergies(T) ==
    LET E == Rat(sys.levels[T.from + 1].E - sys.levels[T.to + 1].E, 1)
    IN  IF T.kind = "gamma"
        THEN {E} \cup
             {RSub(E, getSubshellBinding(sys.levels[T.to + 1].Z, k, j)) :
                k \in 0 .. Len(T.subshells) - 1, j \in 0 .. MaxBins}
        ELSE {betaQuantile(sys, T, u) : u \in BufVals}

\* the number of events that a run of the transition T appends
RunEvents(T) == IF T.kind = "ecapt" THEN 0 ELSE 1

\* C23: a frame of genDecayChain leaves the events of v in place and appends
\* to them; a frame that fires a transition appends the event of the
\* transition first, then the Auger electrons of that transition: genAuger is
\* called once per K vacancy of the transition, on the atom of the Z of the
\* destination level, and each call appends at most one electron
C23_AppendsInOrder ==
    [][gen.status = "running" =>
         LET new == SubSeq(gen'.v, Len(gen.v) + 1, Len(gen'.v))
             T == sys.transitions[gen'.run.tr]
         IN  /\ Len(gen'.v) >= Len(gen.v)
             /\ SubSeq(gen'.v, 1, Len(gen.v)) = gen.v
             /\ gen'.fired = gen.fired => new = <<>>
             /\ gen'.fired # gen.fired =>
                   /\ gen'.run.at = Len(gen.v)
                   /\ gen'.run.calls = gen'.run.nVacant
                   /\ gen'.run.calls > 0 => gen'.run.Z = sys.levels[T.to + 1].Z
                   /\ Len(new) >= RunEvents(T)
                   /\ Len(new) <= RunEvents(T) + gen'.run.calls
                   /\ RunEvents(T) = 1 => new[1].E \in RunEnergies(T)
                   /\ \A k \in RunEvents(T) + 1 .. Len(new) :
                         new[k] = [d |-> "e-",
                                   E |-> sys.atoms[sys.levels[T.to + 1].Z].Eauger]
      ]_vars

\* the second transition of a chain has fired after the first one left its
\* event and an Auger electron
C23_Witness ==
    /\ pc = "ready"
    /\ gen.fired = 2
    /\ gen.run.at = 2
    /\ Len(NewEvents) >= 1

(* ----------------------- claims on the relaxation --------------------- *)

\* C24: after genAuger was called on an atom with Iauger = 0 and Ikxr = 0, the
\* frame has appended the event of its transition only, whatever value of
\* [0,1) gRandom->Uniform(0,1) returned
C24_AsStated ==
    (/\ pc = "ready"
     /\ gen.run.calls > 0
     /\ sys.atoms[gen.run.Z].Iauger = RZero
     /\ sys.atoms[gen.run.Z].Ikxr = RZero)
    => Len(NewEvents) = RunEvents(Fired)

(* -------------------------- claims on the atoms ----------------------- *)

\* C25: the system holds its atoms by Z; no step removes an atom, the atom
\* that a Z has stays the atom of that Z (its Z and Eauger are those of its
\* creation), and once the gamma and AugerK records are processed no later
\* getAtom (of addTransition or of genDecayChain) changes an atom
C25_OneAtomPerZ ==
    [][/\ DOMAIN sys.atoms \subseteq DOMAIN sys'.atoms
       /\ \A Z \in DOMAIN sys'.atoms :
             /\ sys'.atoms[Z].Z = Z
             /\ sys'.atoms[Z].Eauger = DecayAtomNew(Z).Eauger
       /\ \A Z \in DOMAIN sys.atoms :
             /\ getAtom(sys.atoms, Z) = sys.atoms
             /\ (pc # "gamma" \/ pc' = "gamma") => sys'.atoms[Z] = sys.atoms[Z]
      ]_vars

\* a beta or ecapt record was added to a level whose atom an AugerK record
\* had loaded, and a chain fired a transition to that level
C25_Witness ==
    /\ pc = "ready"
    /\ gen.run.calls > 0
    /\ sys.atoms[gen.run.Z].Iauger # RZero
    /\ \E i \in DOMAIN sys.transitions :
          /\ sys.transitions[i].kind # "gamma"
          /\ sys.levels[sys.transitions[i].to + 1].Z = gen.run.Z

(* ----------------------- claims on the ecapt records ------------------ *)

\* the level index that stands for to = AUTO in an ecapt record
AUTO == -1

\* the ecapt records of a file: from the parent nuclide, to = AUTO or to a
\* level of the daughter with an I of ECaptIs
ECaptRecords ==
    {[from |-> NLev - 1, to |-> AUTO, I |-> RZero]} \cup
    {[from |-> p[1], to |-> p[2], I |-> i] : p \in ParentPairs, i \in ECaptIs}

\* the constructor's body for one ecapt record (of an allowed destination)
ProcessECapt(S, ec) ==
    IF ec.to = AUTO THEN ECaptAutoFrom(S, ec.from, 0)
    ELSE addTransition(S, ECaptureNew(ec.from, ec.to, ec.I))

RECURSIVE ProcessECapts(_, _, _)
\* the constructor's loop over the ecapt records: the system after it, and
\* the transitions [from, to, Itotal] that the records with to = AUTO made
ProcessECapts(S, ecapts, autos) ==
    IF ecapts = <<>> THEN [S |-> S, autos |-> autos]
    ELSE LET S2 == ProcessECapt(S, Head(ecapts))
             new == {[from |-> S2.transitions[i].from, to |-> S2.transitions[i].to,
                      Itotal |-> S2.transitions[i].Itotal] :
                       i \in Len(S.transitions) + 1 .. Len(S2.transitions)}
         IN  ProcessECapts(S2, Tail(ecapts),
                           IF Head(ecapts).to = AUTO THEN autos \cup new ELSE autos)

\* C26: where the constructor is about to process the ecapt records, two
\* records give the same transitions for to = AUTO in either order
C26_AsStated ==
    pc = "beta" =>
        \A r1, r2 \in ECaptRecords :
            ProcessECapts(sys, <<r1, r2>>, {}).autos =
            ProcessECapts(sys, <<r2, r1>>, {}).autos

(* ------------------ claims on negative half-lives --------------------- *)

\* the record of level n has a negative hl (the records of StableSpec have
\* hl = 0 or hl < 0)
NegativeHL(n) == sys.levels[n + 1].hl # 0

\* the weight of the bin of level n in lStart
StartWeight(n) == RSub(sys.lStart[n + 2], sys.lStart[n + 1])

\* the weight the claim gives a level of negative hl: its influx when it has
\* outgoing transitions, none otherwise
InfluxWeight(n) ==
    IF Len(sys.transOut[n + 1]) > 0 THEN sys.levels[n + 1].fluxIn ELSE RZero

\* a frame that is not the initiating one, at a level of negative hl, ends
\* the call without firing a transition
StopsAtStable ==
    (/\ Ready
     /\ chain.status = "running"
     /\ chain.n < Len(sys.levels)
     /\ NegativeHL(chain.n)
     /\ chain' # chain)
    => /\ chain'.status = "returned"
       /\ chain'.fired = chain.fired
       /\ chain'.last = chain.n

\* C27 as stated: in a constructed system a level of negative hl has a
\* half-life above the cutoff, whatever finite cutoff was set, and the start
\* weight of its influx if it has outgoing transitions and none otherwise; a
\* chain that reaches it on a non-initiating frame stops there
C27_AsStated ==
    /\ [](Ready => \A n \in LevelNs :
             NegativeHL(n) => /\ sys.levels[n + 1].hl > sys.tcut
                              /\ StartWeight(n) = InfluxWeight(n))
    /\ [][StopsAtStable]_vars

\* C27, amended: that holds for cutoffs below DBL_MAX, the half-life that
\* the constructor gives the level, and the start weight is that of levels
\* other than the highest one, whose start weight is 1
C27_StableBelowMax ==
    /\ [](Ready /\ sys.tcut < DBL_MAX =>
            \A n \in LevelNs :
                NegativeHL(n) =>
                    /\ sys.levels[n + 1].hl > sys.tcut
                    /\ n # Top => StartWeight(n) = InfluxWeight(n)
                    /\ n = Top => StartWeight(n) = ROne)
    /\ [][sys.tcut < DBL_MAX => StopsAtStable]_vars

\* a chain has reached a fed level of negative hl with outgoing transitions
\* from above and stopped there
C27_Witness ==
    /\ Ready /\ sys.tcut < DBL_MAX
    /\ chain.status = "returned"
    /\ chain.fired = 1
    /\ chain.last # Top
    /\ NegativeHL(chain.last)
    /\ Len(sys.transOut[chain.last + 1]) > 0
    /\ StartWeight(chain.last) = ROne

(* ------------------- claims on setCutoff after scale ------------------ *)

\* C28: a call setCutoff(t) on a constructed system whose cutoff is t leaves
\* the getProb of every bin of lStart as it was
C28_AsStated ==
    [][(Ready /\ lastOp' = "setCutoff" /\ sys'.tcut = sys.tcut)
        => Probs(sys'.lStart) = Probs(sys.lStart)]_vars

(* ------------------ claims on the conversion selector ----------------- *)

\* the weight of the last (photon) bin of the shell selector of T
PhotonWeight(T) == RSub(T.shells[Len(T.shells)], T.shells[Len(T.shells) - 1])

\* C29: in a constructed system, after any scale calls, the Igamma of every
\* gamma/conversion transition is the weight of the photon bin of its shell
\* selector and its Itotal the total weight of the selector
C29_AsStated ==
    Ready =>
        \A i \in DOMAIN sys.transitions :
            sys.transitions[i].kind = "gamma" =>
                /\ sys.transitions[i].Igamma = PhotonWeight(sys.transitions[i])
                /\ sys.transitions[i].Itotal = getCumProb(sys.transitions[i].shells)

(* --------------------- claims on ecapt with to = AUTO ----------------- *)

\* the levels D that the claim names for an AUTO record from level f: same
\* A, Z(D) = Z(f) - 1, E(D) < E(f) and fluxOut(D) > fluxIn(D)
AutoDests(f) ==
    {d \in LevelNs :
        /\ ECaptAllowed(sys.levels[f + 1], sys.levels[d + 1])
        /\ RLt(sys.levels[d + 1].fluxIn, sys.levels[d + 1].fluxOut)}

\* the transitions that an AUTO record from level f adds to the system
AutoMade(f) ==
    LET S2 == ECaptAutoFrom(sys, f, 0)
    IN  [k \in 1 .. Len(S2.transitions) - Len(sys.transitions) |->
            S2.transitions[Len(sys.transitions) + k]]

\* C30: where the constructor processes the ecapt records, a record with
\* to = AUTO from level f makes one electron capture from f to each level D
\* of AutoDests(f), with Itotal = fluxOut(D) - fluxIn(D), and no other
\* transition; afterwards fluxIn(D) = fluxOut(D) for each of them
C30_AsStated ==
    pc \in {"beta", "ecapt"} =>
        \A f \in LevelNs :
            LET S2 == ECaptAutoFrom(sys, f, 0)
                new == AutoMade(f)
            IN  /\ Len(new) = Cardinality(AutoDests(f))
                /\ \A d \in AutoDests(f) :
                      /\ \E k \in DOMAIN new :
                            new[k] = ECaptureNew(f, d,
                                        RSub(sys.levels[d + 1].fluxOut,
                                             sys.levels[d + 1].fluxIn))
                      /\ S2.levels[d + 1].fluxIn = S2.levels[d + 1].fluxOut
                /\ \A k \in DOMAIN new : new[k].to \in AutoDests(f)

====
